---- MODULE Spec2Model ----
(***************************************************************************)
(* Model of the front end of cmgn/compiler: the lexer (package lexer, the  *)
(* Go source that follows the grammar in src/doc/grammar.md), the token    *)
(* tables (src/token/token.go) and the recursive-descent parser (package   *)
(* parser: the revision in src/unnamed/part_003 lines 1-559 and the        *)
(* revision in src/parser/parser.go).                                      *)
(*                                                                         *)
(* Strings are sequences of one-character strings, so that substrings,     *)
(* maximal runs and keyword lookup are computed, not assumed.  Go indexes  *)
(* from 0; a Go index i is the TLA+ index i + 1.                           *)
(***************************************************************************)
EXTENDS Integers, Sequences, FiniteSets, TLC

VARIABLES source, l, tokens, lexpc, lexResult, first,
          rev, toks, p, statements, parsepc, parseResult

vars == <<source, l, tokens, lexpc, lexResult, first,
          rev, toks, p, statements, parsepc, parseResult>>

lexVars == <<source, l, tokens, lexpc, lexResult, first>>

parseVars == <<rev, toks, p, statements, parsepc, parseResult>>

(***************************************************************************)
(* Bounds of the model.                                                    *)
(***************************************************************************)
MaxSrc == 4

MaxSrcFull == 2

MaxToks == 2

MaxSubs == 2

MaxTypeDepth == 1

MaxTail == 2

MaxOps == 2

MaxStmtDepth == 2

\* Go's nil (a nil *token.Token, a nil error, a nil slice, a nil node).
Nil == [nil |-> TRUE]

(***************************************************************************)
(* package token                                                           *)
(***************************************************************************)
TokenTypes ==
    {"TokInteger", "TokIdentifier", "TokAssign", "TokEquals", "TokLessThan",
     "TokGreaterThan", "TokPlus", "TokDash", "TokStar", "TokFwdSlash",
     "TokAmpersand", "TokIf", "TokElse", "TokWhile", "TokLeftBracket",
     "TokRightBracket", "TokLeftCurly", "TokRightCurly", "TokLeftSquare",
     "TokRightSquare", "TokSemiColon", "TokVar", "TokInt", "TokArray",
     "TokOf", "TokPtr", "TokTo", "TokChar", "TokNotEqual", "TokNot"}

\* token.ConstantTokens: the tokens that always have the same value.
ConstantTokens ==
    [t \in TokenTypes \ {"TokInteger", "TokIdentifier"} |->
        CASE t = "TokAssign"       -> <<"=">>
          [] t = "TokEquals"       -> <<"=", "=">>
          [] t = "TokLessThan"     -> <<"<">>
          [] t = "TokGreaterThan"  -> <<">">>
          [] t = "TokPlus"         -> <<"+">>
          [] t = "TokDash"         -> <<"-">>
          [] t = "TokStar"         -> <<"*">>
          [] t = "TokFwdSlash"     -> <<"/">>
          [] t = "TokAmpersand"    -> <<"&">>
          [] t = "TokIf"           -> <<"i", "f">>
          [] t = "TokElse"         -> <<"e", "l", "s", "e">>
          [] t = "TokWhile"        -> <<"w", "h", "i", "l", "e">>
          [] t = "TokLeftBracket"  -> <<"(">>
          [] t = "TokRightBracket" -> <<")">>
          [] t = "TokLeftCurly"    -> <<"{">>
          [] t = "TokRightCurly"   -> <<"}">>
          [] t = "TokLeftSquare"   -> <<"[">>
          [] t = "TokRightSquare"  -> <<"]">>
          [] t = "TokSemiColon"    -> <<";">>
          [] t = "TokVar"          -> <<"v", "a", "r">>
          [] t = "TokInt"          -> <<"i", "n", "t">>
          [] t = "TokArray"        -> <<"a", "r", "r", "a", "y">>
          [] t = "TokOf"           -> <<"o", "f">>
          [] t = "TokPtr"          -> <<"p", "t", "r">>
          [] t = "TokTo"           -> <<"t", "o">>
          [] t = "TokChar"         -> <<"c", "h", "a", "r">>
          [] t = "TokNotEqual"     -> <<"!", "=">>
          [] t = "TokNot"          -> <<"!">>]

\* token.Keywords: the identifiers that are language-level keywords.
KeywordTypes ==
    {"TokIf", "TokWhile", "TokElse", "TokVar", "TokInt", "TokArray", "TokOf",
     "TokPtr", "TokTo", "TokChar"}

Keywords == [w \in {ConstantTokens[t] : t \in KeywordTypes} |->
                CHOOSE t \in KeywordTypes : ConstantTokens[t] = w]

\* strconv.Itoa on a line number: its decimal digits
DigitChar(d) == CASE d = 0 -> "0" [] d = 1 -> "1" [] d = 2 -> "2" [] d = 3 -> "3"
                  [] d = 4 -> "4" [] d = 5 -> "5" [] d = 6 -> "6" [] d = 7 -> "7"
                  [] d = 8 -> "8" [] d = 9 -> "9"

RECURSIVE Itoa(_)
Itoa(n) == IF n < 0 THEN <<"-">> \o Itoa(0 - n)
           ELSE IF n < 10 THEN <<DigitChar(n)>>
           ELSE Append(Itoa(n \div 10), DigitChar(n % 10))

\* SourceInformation.String(): FileName + ":" + strconv.Itoa(Line)
SourceString(si) == <<si.FileName, ":">> \o Itoa(si.Line)

(***************************************************************************)
(* package lexer                                                           *)
(***************************************************************************)
LowerCase == {"a", "b", "c", "d", "e", "f", "g", "h", "i", "j", "k", "l", "m",
              "n", "o", "p", "q", "r", "s", "t", "u", "v", "w", "x", "y", "z"}

UpperCase == {"A", "B", "C", "D", "E", "F", "G", "H", "I", "J", "K", "L", "M",
              "N", "O", "P", "Q", "R", "S", "T", "U", "V", "W", "X", "Y", "Z"}

isSpace(b) == b = " " \/ b = "\n" \/ b = "\t" \/ b = "\r"

isAlpha(b) == b \in LowerCase \/ b \in UpperCase \/ b = "_"

isDigit(b) == b \in {"0", "1", "2", "3", "4", "5", "6", "7", "8", "9"}

\* byteTokens: the one-byte tokens that cannot start a longer token.
byteTokens ==
    [b \in {"+", "-", "*", ";", "/", "(", ")", "{", "}", "<", ">"} |->
        CASE b = "+" -> "TokPlus"
          [] b = "-" -> "TokDash"
          [] b = "*" -> "TokStar"
          [] b = ";" -> "TokSemiColon"
          [] b = "/" -> "TokFwdSlash"
          [] b = "(" -> "TokLeftBracket"
          [] b = ")" -> "TokRightBracket"
          [] b = "{" -> "TokLeftCurly"
          [] b = "}" -> "TokRightCurly"
          [] b = "<" -> "TokLessThan"
          [] b = ">" -> "TokGreaterThan"]

\* lexerState.empty: no more bytes.
lexEmpty(ls) == ls.pos >= Len(source)

\* lexerState.curr: the current byte; only evaluated where pos is in range,
\* the callers below make the out-of-range read an explicit panic.
lexCurr(ls) == source[ls.pos + 1]

\* lexerState.sourceInfo
sourceInfo(ls) == [FileName |-> ls.fname, Line |-> ls.line]

\* lexerState.buildToken
buildToken(ls, typ, val) == [Type |-> typ, Value |-> val, Source |-> sourceInfo(ls)]

\* lexerState.buildConstantToken (every caller passes a constant token type)
buildConstantToken(ls, typ) ==
    [Type |-> typ, Value |-> ConstantTokens[typ], Source |-> sourceInfo(ls)]

\* errors.New / fmt.Errorf: an error value holding its message, the message
\* as the sequence of its parts
NewError(msg) == [msg |-> msg]

\* A non-nil Go slice with the given elements.
Slice(elems) == [elems |-> elems]

\* lexerState.error: sets the error field
lexError(ls, msg) == [ls EXCEPT !.err = NewError(msg)]

\* identEnd with a plausible slip: the run holds letters and '_' only.
RECURSIVE identEnd_alpha(_)
identEnd_alpha(pos) ==
    IF pos < Len(source) /\ isAlpha(source[pos + 1])
    THEN identEnd_alpha(pos + 1)
    ELSE pos

\* the loop of readIdentifier: the end of the run of letters, digits and '_'
RECURSIVE identEnd(_)
identEnd(pos) ==
    IF pos < Len(source) /\ (isAlpha(source[pos + 1]) \/ isDigit(source[pos + 1]))
    THEN identEnd(pos + 1)
    ELSE pos

\* the loop of readInteger: the end of the run of digits
RECURSIVE digitEnd(_)
digitEnd(pos) ==
    IF pos < Len(source) /\ isDigit(source[pos + 1])
    THEN digitEnd(pos + 1)
    ELSE pos

\* lexerState.readIdentifier
readIdentifier(ls) ==
    LET start == ls.pos
        l2    == [ls EXCEPT !.pos = identEnd(ls.pos)]
        ident == SubSeq(source, start + 1, l2.pos)
    IN  IF ident \in DOMAIN Keywords
        THEN [ls |-> l2, tok |-> buildConstantToken(l2, Keywords[ident]), panic |-> FALSE]
        ELSE [ls |-> l2, tok |-> buildToken(l2, "TokIdentifier", ident), panic |-> FALSE]

\* lexerState.readInteger
readInteger(ls) ==
    LET start == ls.pos
        l2    == [ls EXCEPT !.pos = digitEnd(ls.pos)]
    IN  [ls |-> l2, tok |-> buildToken(l2, "TokInteger", SubSeq(source, start + 1, l2.pos)),
         panic |-> FALSE]

\* lexerState.next: the next token, or nil with err set at an invalid
\* character, or nil at the end of the input.  After '=' the code reads
\* l.curr() without checking empty(): at the end of the source that read is
\* out of range and the Go runtime panics.
RECURSIVE next(_)
next(ls) ==
    IF ~(ls.pos < Len(source))
    THEN [ls |-> ls, tok |-> Nil, panic |-> FALSE]
    ELSE LET curr == lexCurr(ls) IN
         IF isSpace(curr)
         THEN next([ls EXCEPT !.pos = ls.pos + 1,
                              !.line = IF curr = "\n" THEN ls.line + 1 ELSE ls.line])
         ELSE IF isAlpha(curr) THEN readIdentifier(ls)
         ELSE IF isDigit(curr) THEN readInteger(ls)
         ELSE IF curr \in DOMAIN byteTokens
         THEN LET l2 == [ls EXCEPT !.pos = ls.pos + 1]
              IN  [ls |-> l2, tok |-> buildConstantToken(l2, byteTokens[curr]), panic |-> FALSE]
         ELSE IF curr = "="
         THEN LET l2 == [ls EXCEPT !.pos = ls.pos + 1] IN
              IF lexEmpty(l2)
              THEN [ls |-> l2, tok |-> Nil, panic |-> TRUE]
              ELSE IF lexCurr(l2) = "="
                   THEN LET l3 == [l2 EXCEPT !.pos = l2.pos + 1]
                        IN  [ls |-> l3, tok |-> buildConstantToken(l3, "TokEquals"), panic |-> FALSE]
                   ELSE [ls |-> l2, tok |-> buildConstantToken(l2, "TokAssign"), panic |-> FALSE]
         ELSE [ls |-> lexError(ls, <<"invalid character: ", curr>>), tok |-> Nil, panic |-> FALSE]

(***************************************************************************)
(* package parser.  The repository holds two revisions of parser.go that   *)
(* the token set of src/token/token.go compiles with: src/unnamed/part_003 *)
(* (lines 1-559, with if/while/blocks, subscripts and unary operators) and *)
(* src/parser/parser.go.  rev says which one runs; the definitions follow  *)
(* part_003 and name the places where parser.go differs.                   *)
(*                                                                         *)
(* The parser state ps holds the fields pos and err of the struct, and     *)
(* three history fields that no code reads: panic (the Go runtime stopped  *)
(* the call at an out-of-range or nil read), errs (every error assigned to *)
(* err, in order) and late (how often pos was incremented while err was    *)
(* already set).  Each grammar function returns the new state and the node *)
(* (Nil for Go's nil).                                                     *)
(***************************************************************************)
Revisions == {"part_003", "parser.go"}

Old == rev = "parser.go"

\* Type.String(): the display text of a token type, the line comments of
\* the const block of token.go.
TypeString(typ) ==
    CASE typ = "TokInteger"    -> <<"integer">>
      [] typ = "TokIdentifier" -> <<"identifier">>
      [] typ = "TokLeftSquare" -> <<"'", "]", "'">>
      [] OTHER                 -> <<"'">> \o ConstantTokens[typ] \o <<"'">>

\* Token.String()
TokenString(t) ==
    IF t.Type = "TokInteger" \/ t.Type = "TokIdentifier"
    THEN <<"'">> \o t.Value \o <<"'">>
    ELSE TypeString(t.Type)

DigitVal(c) == CHOOSE d \in 0..9 : DigitChar(d) = c

\* The decimal digits of math.MaxInt64.
MaxInt64Digits == <<"9", "2", "2", "3", "3", "7", "2", "0", "3", "6",
                    "8", "5", "4", "7", "7", "5", "8", "0", "7">>

RECURSIVE stripZeros(_)
stripZeros(ds) == IF Len(ds) > 1 /\ ds[1] = "0" THEN stripZeros(Tail(ds)) ELSE ds

\* ds > es for two digit strings of the same length
RECURSIVE digitsGreater(_, _)
digitsGreater(ds, es) ==
    IF ds = <<>> THEN FALSE
    ELSE IF DigitVal(ds[1]) # DigitVal(es[1]) THEN DigitVal(ds[1]) > DigitVal(es[1])
    ELSE digitsGreater(Tail(ds), Tail(es))

\* strconv.Atoi on an unsigned lexeme: the int (as its decimal digits, an
\* int64 does not fit the model checker's integers) and the error: a syntax
\* error gives 0, a value above MaxInt64 gives MaxInt64 and a range error.
Atoi(str) ==
    IF str = <<>> \/ \E i \in 1..Len(str) : ~isDigit(str[i])
    THEN [val |-> <<"0">>, err |-> NewError(<<"strconv.Atoi: invalid syntax">>)]
    ELSE LET ds == stripZeros(str) IN
         IF Len(ds) > Len(MaxInt64Digits)
            \/ (Len(ds) = Len(MaxInt64Digits) /\ digitsGreater(ds, MaxInt64Digits))
         THEN [val |-> MaxInt64Digits, err |-> NewError(<<"strconv.Atoi: value out of range">>)]
         ELSE [val |-> ds, err |-> Nil]

\* "[%s]" with SourceInformation.String(): the location in front of a
\* parser error message
Loc(si) == <<"[">> \o SourceString(si) \o <<"]">>

\* A grammar function's result: the parser state and the node.
R(ps, node) == [p |-> ps, node |-> node]

\* parser.empty
empty(ps) == ps.pos >= Len(toks)

\* parser.curr
curr(ps) == IF empty(ps) THEN Nil ELSE toks[ps.pos + 1]

\* p.pos++
advance(ps) == [ps EXCEPT !.pos = ps.pos + 1,
                          !.late = IF ps.err # Nil THEN ps.late + 1 ELSE ps.late]

\* p.err = fmt.Errorf(...)
setErr(ps, msg) == [ps EXCEPT !.err = NewError(msg), !.errs = Append(ps.errs, NewError(msg))]

\* The Go runtime panics: an index out of range or a nil dereference.
panicked(ps) == [ps EXCEPT !.panic = TRUE]

\* The read p.toks[i] is in range.
inRange(i) == 0 <= i /\ i < Len(toks)

\* The arguments of fmt.Errorf after the location: a piece of the format
\* string, a token.Type and a *token.Token.
Text(parts) == [text |-> parts]

TypeArg(typ) == [typ |-> typ]

\* The %s verb: a token.Type by Type.String(), a token by Token.String()
String(arg) ==
    IF "text" \in DOMAIN arg THEN arg.text
    ELSE IF "typ" \in DOMAIN arg THEN TypeString(arg.typ)
    ELSE TokenString(arg)

RECURSIVE Sprintf(_)
Sprintf(args) == IF args = <<>> THEN <<>> ELSE String(Head(args)) \o Sprintf(Tail(args))

\* p.err = fmt.Errorf("[%s] ...", tok.Source.String(), ...)
Errorf(ps, tok, args) == setErr(ps, Loc(tok.Source) \o Sprintf(args))

\* parser.go's expect, at the end of the input, goes on to p.pos++.
pastEnd(ps) == IF Old /\ empty(ps) THEN advance(ps) ELSE ps

\* The error of parser.expect on the token c: the previous token at the end
\* of the input, else the current token.  parser.go, at the end of the
\* input, returns true.
expectError(ps, typ, c) ==
    [p  |-> pastEnd(Errorf(ps, c,
                IF empty(ps)
                THEN IF Old
                     THEN <<Text(<<" unexpected end of input, expected ">>), TypeArg(typ)>>
                     ELSE <<Text(<<" unexpected end of input after ">>), c,
                            Text(<<", expected ">>), TypeArg(typ)>>
                ELSE <<Text(<<" expected ">>), TypeArg(typ), Text(<<", got ">>),
                       IF Old THEN TypeArg(c.Type) ELSE c>>)),
     ok |-> Old /\ empty(ps)]

\* parser.expect; after a panic nothing runs any more.  At the end of the
\* input p.toks[p.pos-1] is read, out of range when there is no token.
expect(ps, typ) ==
    IF ps.panic THEN [p |-> ps, ok |-> FALSE]
    ELSE IF empty(ps) /\ ~inRange(ps.pos - 1) THEN [p |-> panicked(ps), ok |-> FALSE]
    ELSE IF empty(ps) \/ toks[ps.pos + 1].Type # typ
    THEN expectError(ps, typ, toks[IF empty(ps) THEN ps.pos ELSE ps.pos + 1])
    ELSE [p |-> advance(ps), ok |-> TRUE]

\* parser.unexpected with another wording of the message
unexpected_expected(ps, c) == Errorf(ps, c, <<Text(<<" expected a type, got ">>), c>>)

\* parser.unexpected
unexpected(ps, c) == Errorf(ps, c, <<Text(<<" unexpected ">>), c>>)

\* parser.unexpectedEnd: at the end of the input, records the error at the
\* previous token and returns true (parser.go: the same without "after T").
unexpectedEnd(ps) ==
    IF ps.panic THEN [p |-> ps, ok |-> TRUE]
    ELSE IF empty(ps)
    THEN IF ~inRange(ps.pos - 1) THEN [p |-> panicked(ps), ok |-> TRUE]
         ELSE [p |-> Errorf(ps, toks[ps.pos],
                            IF Old THEN <<Text(<<" unexpected end of input">>)>>
                            ELSE <<Text(<<" unexpected end of input after ">>),
                                   toks[ps.pos]>>),
               ok |-> TRUE]
    ELSE [p |-> ps, ok |-> FALSE]

RECURSIVE statement(_)
RECURSIVE blockLoop(_, _)
RECURSIVE typedecl(_)
RECURSIVE equality(_)
RECURSIVE equalityLoop(_, _)
RECURSIVE summationLoop(_, _)
RECURSIVE productLoop(_, _)
RECURSIVE subscriptLoop(_, _)
RECURSIVE subscript(_)
RECURSIVE terminal(_)

\* The value bound by a one-element function [x \in {v} |-> e]: e with x
\* standing for v, the result of a call that is used more than once.
With(f) == f[CHOOSE x \in DOMAIN f : TRUE]

\* parser.expression
expression(ps) == equality(ps)

\* The unary cases of parser.terminal: the token type and the UnaryOperator
\* type of '*', '-' and '&'.
UnaryTypes == [t \in {"TokStar", "TokDash", "TokAmpersand"} |->
                  CASE t = "TokStar"      -> "UnaryDereference"
                    [] t = "TokDash"      -> "UnaryMinus"
                    [] t = "TokAmpersand" -> "UnaryAddress"]

\* unaryCase with a plausible change: the operand of the unary operator is
\* parsed by subscript, not by terminal.
unaryCase_subscript(ps, tokTyp, opTyp) ==
    With([term \in {subscript(expect(ps, tokTyp).p)} |->
        IF term.node = Nil THEN R(term.p, Nil)
        ELSE R(term.p, [node |-> "UnaryOperator", Type |-> opTyp, Value |-> term.node])])

\* unaryCase taking a whole expression as the operand of the unary operator
unaryCase_expression(ps, tokTyp, opTyp) ==
    With([term \in {equality(expect(ps, tokTyp).p)} |->
        IF term.node = Nil THEN R(term.p, Nil)
        ELSE R(term.p, [node |-> "UnaryOperator", Type |-> opTyp, Value |-> term.node])])

\* One unary case of parser.terminal: '*' terminal, '-' terminal, '&' terminal.
unaryCase(ps, tokTyp, opTyp) ==
    With([term \in {terminal(expect(ps, tokTyp).p)} |->
        IF term.node = Nil THEN R(term.p, Nil)
        ELSE R(term.p, [node |-> "UnaryOperator", Type |-> opTyp, Value |-> term.node])])

\* The '(' case of parser.terminal: '(' expression ')'
bracketCase(ps) ==
    With([e1 \in {expect(ps, "TokLeftBracket")} |->
        IF ~e1.ok THEN R(e1.p, Nil) ELSE
        With([expr \in {expression(e1.p)} |->
            IF expr.node = Nil THEN R(expr.p, Nil) ELSE
            With([e2 \in {expect(expr.p, "TokRightBracket")} |->
                IF ~e2.ok THEN R(e2.p, Nil) ELSE R(e2.p, expr.node)])])])

\* parser.terminal (parser.go has no unary cases)
terminal(ps) ==
    IF ps.panic THEN R(ps, Nil) ELSE
    LET ue == unexpectedEnd(ps) IN
    IF ue.ok THEN R(ue.p, Nil) ELSE
    LET c == curr(ps) IN
    IF c.Type = "TokInteger"
    THEN R(advance(ps), [node |-> "Integer", Source |-> c.Source, Value |-> c.Value])
    ELSE IF c.Type = "TokIdentifier"
    THEN R(advance(ps), [node |-> "Variable", Source |-> c.Source, Value |-> c.Value])
    ELSE IF c.Type = "TokLeftBracket" THEN bracketCase(ps)
    ELSE IF ~Old /\ c.Type \in DOMAIN UnaryTypes THEN unaryCase(ps, c.Type, UnaryTypes[c.Type])
    ELSE R(unexpected(ps, c), Nil)

\* The loop of parser.subscript with base and index exchanged
subscriptLoop_swapped(ps, term) ==
    IF ~ps.panic /\ ~empty(ps) /\ curr(ps).Type = "TokLeftSquare"
    THEN With([index \in {expression(expect(ps, "TokLeftSquare").p)} |->
         With([e2 \in {expect(index.p, "TokRightSquare")} |->
             IF ~e2.ok THEN R(e2.p, Nil)
             ELSE subscriptLoop(e2.p, [node |-> "Subscript", Value |-> index.node,
                                       Index |-> term])])])
    ELSE R(ps, term)

\* The loop of parser.subscript: while the current token is '[', an index
\* expression and ']'; the term is not tested for nil.
subscriptLoop(ps, term) ==
    IF ~ps.panic /\ ~empty(ps) /\ curr(ps).Type = "TokLeftSquare"
    THEN With([index \in {expression(expect(ps, "TokLeftSquare").p)} |->
         With([e2 \in {expect(index.p, "TokRightSquare")} |->
             IF ~e2.ok THEN R(e2.p, Nil)
             ELSE subscriptLoop(e2.p, [node |-> "Subscript", Value |-> term,
                                       Index |-> index.node])])])
    ELSE R(ps, term)

\* parser.subscript (parser.go has no subscript: the operand of a product is
\* the terminal)
subscript(ps) ==
    With([term \in {terminal(ps)} |->
        IF Old THEN term ELSE subscriptLoop(term.p, term.node)])

\* The node of a binary operator
BinaryOperator(typ, left, right) ==
    [node |-> "BinaryOperator", Type |-> typ, Left |-> left, Right |-> right]

\* The loop of parser.product
productLoop(ps, term) ==
    IF ps.panic \/ empty(ps) THEN R(ps, term) ELSE
    LET c == curr(ps) IN
    IF c.Type = "TokStar" \/ c.Type = "TokFwdSlash"
    THEN With([right \in {subscript(expect(ps, c.Type).p)} |->
             IF right.node = Nil THEN R(right.p, Nil)
             ELSE productLoop(right.p,
                      BinaryOperator(IF c.Type = "TokStar" THEN "BinaryMul" ELSE "BinaryDiv",
                                     term, right.node))])
    ELSE R(ps, term)

\* parser.product without its loop: one operand and no '*' or '/'
product_noLoop(ps) == subscript(ps)

\* parser.product
product(ps) ==
    With([term \in {subscript(ps)} |->
        IF term.node = Nil THEN R(term.p, Nil) ELSE productLoop(term.p, term.node)])

\* The loop of parser.summation
summationLoop(ps, prod) ==
    IF ps.panic \/ empty(ps) THEN R(ps, prod) ELSE
    LET c == curr(ps) IN
    IF c.Type = "TokPlus" \/ c.Type = "TokDash"
    THEN With([right \in {product(expect(ps, c.Type).p)} |->
             IF right.node = Nil THEN R(right.p, Nil)
             ELSE summationLoop(right.p,
                      BinaryOperator(IF c.Type = "TokPlus" THEN "BinaryAdd" ELSE "BinarySub",
                                     prod, right.node))])
    ELSE R(ps, prod)

\* parser.summation without its loop: one operand and no '+' or '-'
summation_noLoop(ps) == product(ps)

\* parser.summation
summation(ps) ==
    With([prod \in {product(ps)} |->
        IF prod.node = Nil THEN R(prod.p, Nil) ELSE summationLoop(prod.p, prod.node)])

\* The rest of parser.comparison after its left operand: at most one '<' or
\* '>' and a right operand
comparisonRight(left) ==
    IF left.p.panic \/ empty(left.p) THEN left
    ELSE LET c == curr(left.p) IN
         IF c.Type = "TokLessThan" \/ c.Type = "TokGreaterThan"
         THEN With([right \in {summation(expect(left.p, c.Type).p)} |->
                  IF right.node = Nil THEN R(right.p, Nil)
                  ELSE R(right.p,
                         BinaryOperator(IF c.Type = "TokLessThan" THEN "BinaryLessThan"
                                        ELSE "BinaryGreaterThan",
                                        left.node, right.node))])
         ELSE left

\* parser.comparison
comparison(ps) ==
    With([left \in {summation(ps)} |->
        IF left.node = Nil THEN R(left.p, Nil) ELSE comparisonRight(left)])

\* The loop of parser.equality taking '<' and '>' as further operators of
\* the chain
equalityLoop_relational(ps, left) ==
    IF ps.panic \/ empty(ps) THEN R(ps, left) ELSE
    LET c == curr(ps) IN
    IF c.Type \in {"TokEquals", "TokNotEqual", "TokLessThan", "TokGreaterThan"}
    THEN With([right \in {comparison(expect(ps, c.Type).p)} |->
             IF right.node = Nil THEN R(right.p, Nil)
             ELSE equalityLoop(right.p,
                      BinaryOperator(CASE c.Type = "TokNotEqual" -> "BinaryNotEqual"
                                       [] c.Type = "TokEquals" -> "BinaryEqual"
                                       [] c.Type = "TokLessThan" -> "BinaryLessThan"
                                       [] c.Type = "TokGreaterThan" -> "BinaryGreaterThan",
                                     left, right.node))])
    ELSE R(ps, left)

\* The loop of parser.equality: '==' and '!=' (parser.go: '==' only, with
\* the operator type named BinaryEquals)
equalityLoop(ps, left) ==
    IF ps.panic \/ empty(ps) THEN R(ps, left) ELSE
    LET c == curr(ps) IN
    IF c.Type = "TokEquals" \/ (~Old /\ c.Type = "TokNotEqual")
    THEN With([right \in {comparison(expect(ps, c.Type).p)} |->
             IF right.node = Nil THEN R(right.p, Nil)
             ELSE equalityLoop(right.p,
                      BinaryOperator(IF c.Type = "TokNotEqual" THEN "BinaryNotEqual"
                                     ELSE IF Old THEN "BinaryEquals" ELSE "BinaryEqual",
                                     left, right.node))])
    ELSE R(ps, left)

\* parser.equality
equality(ps) ==
    With([left \in {comparison(ps)} |->
        IF left.node = Nil THEN R(left.p, Nil) ELSE equalityLoop(left.p, left.node)])

\* The 'array' case of parser.typedecl after the element type: part_003
\* records the error of strconv.Atoi and goes on to return the ArrayType;
\* parser.go discards that error.
arrayType(ps, c, size, typ) ==
    IF size = Nil THEN R(panicked(ps), Nil) ELSE
    LET sizeInt == Atoi(size.Value) IN
    R(IF sizeInt.err # Nil /\ ~Old
      THEN Errorf(ps, size, <<Text(<<" invalid static array size '">> \o size.Value
                                   \o <<"'">>)>>)
      ELSE ps,
      [node |-> "ArrayType", Type |-> typ, Length |-> sizeInt.val, Source |-> c.Source])

\* The '(' case of parser.typedecl: '(' typedecl ')'
bracketType(ps) ==
    With([typ \in {typedecl(expect(ps, "TokLeftBracket").p)} |->
        IF typ.node = Nil THEN R(typ.p, Nil) ELSE
        With([e2 \in {expect(typ.p, "TokRightBracket")} |->
            IF ~e2.ok THEN R(e2.p, Nil) ELSE R(e2.p, typ.node)])])

\* The 'array' case of parser.typedecl: 'array' '(' integer ')' 'of' typedecl
arrayCase(ps, c) ==
    With([e2 \in {expect(expect(ps, "TokArray").p, "TokLeftBracket")} |->
        IF ~e2.ok THEN R(e2.p, Nil) ELSE
        With([e3 \in {expect(e2.p, "TokInteger")} |->
            IF ~e3.ok THEN R(e3.p, Nil) ELSE
            With([e4 \in {expect(e3.p, "TokRightBracket")} |->
                IF ~e4.ok THEN R(e4.p, Nil) ELSE
                With([e5 \in {expect(e4.p, "TokOf")} |->
                    IF ~e5.ok THEN R(e5.p, Nil) ELSE
                    With([typ \in {typedecl(e5.p)} |->
                        IF typ.node = Nil THEN R(typ.p, Nil)
                        ELSE arrayType(typ.p, c, curr(e2.p), typ.node)])])])])])

\* The 'ptr' case of parser.typedecl: 'ptr' 'to' typedecl
ptrCase(ps, c) ==
    With([e2 \in {expect(expect(ps, "TokPtr").p, "TokTo")} |->
        IF ~e2.ok THEN R(e2.p, Nil) ELSE
        With([typ \in {typedecl(e2.p)} |->
            IF typ.node = Nil THEN R(typ.p, Nil)
            ELSE R(typ.p, [node |-> "PointerType", Source |-> c.Source,
                           Type |-> typ.node])])])

\* parser.typedecl (parser.go has no '(' typedecl ')' case)
typedecl(ps) ==
    IF ps.panic THEN R(ps, Nil) ELSE
    LET ue == unexpectedEnd(ps) IN
    IF ue.ok THEN R(ue.p, Nil) ELSE
    LET c == curr(ps) IN
    IF ~Old /\ c.Type = "TokLeftBracket" THEN bracketType(ps)
    ELSE IF c.Type = "TokInt"
    THEN R(expect(ps, "TokInt").p, [node |-> "Primitive", Type |-> "IntType", Source |-> c.Source])
    ELSE IF c.Type = "TokChar"
    THEN R(expect(ps, "TokChar").p, [node |-> "Primitive", Type |-> "CharType", Source |-> c.Source])
    ELSE IF c.Type = "TokArray" THEN arrayCase(ps, c)
    ELSE IF c.Type = "TokPtr" THEN ptrCase(ps, c)
    ELSE R(unexpected(ps, c), Nil)

\* The loop of parser.block: statements up to '}' or the end of the input
blockLoop(ps, stmts) ==
    IF ~ps.panic /\ ~empty(ps) /\ curr(ps).Type # "TokRightCurly"
    THEN With([stmt \in {statement(ps)} |->
             IF stmt.node = Nil THEN [p |-> stmt.p, stmts |-> Nil]
             ELSE blockLoop(stmt.p, Append(stmts, stmt.node))])
    ELSE [p |-> ps, stmts |-> Slice(stmts)]

\* parser.block
block(ps) ==
    With([e1 \in {expect(ps, "TokLeftCurly")} |->
        IF ~e1.ok THEN R(e1.p, Nil) ELSE
        With([body \in {blockLoop(e1.p, <<>>)} |->
            IF body.stmts = Nil THEN R(body.p, Nil) ELSE
            With([e2 \in {expect(body.p, "TokRightCurly")} |->
                IF ~e2.ok THEN R(e2.p, Nil)
                ELSE R(e2.p, [node |-> "BlockStatement", Source |-> curr(ps).Source,
                              Statements |-> body.stmts.elems])])])])

\* The zero value of token.SourceInformation.
ZeroSource == [FileName |-> "", Line |-> 0]

\* The 'var' case of parser.statement
varCase(ps, c) ==
    With([e1 \in {expect(advance(ps), "TokIdentifier")} |->
        IF ~e1.ok THEN R(e1.p, Nil) ELSE
        With([typ \in {typedecl(e1.p)} |->
            IF typ.node = Nil THEN R(typ.p, Nil) ELSE
            With([e2 \in {expect(typ.p, "TokSemiColon")} |->
                IF ~e2.ok THEN R(e2.p, Nil)
                ELSE IF curr(advance(ps)) = Nil THEN R(panicked(e2.p), Nil)
                ELSE R(e2.p, [node |-> "Declaration", Source |-> c.Source,
                              Name |-> curr(advance(ps)).Value, Type |-> typ.node])])])])

\* The 'else' branch of the 'if' case of parser.statement
elseCase(c, cond, stmt1) ==
    With([stmt2 \in {statement(expect(stmt1.p, "TokElse").p)} |->
        IF stmt2.node = Nil THEN R(stmt2.p, Nil)
        ELSE R(stmt2.p, [node |-> "IfStatement", Source |-> c.Source,
                         Condition |-> cond.node, Statement1 |-> stmt1.node,
                         Statement2 |-> stmt2.node])])

\* The 'if' case of parser.statement without the else clause
ifCase_noElse(ps, c) ==
    With([cond \in {expression(expect(ps, "TokIf").p)} |->
        IF cond.node = Nil THEN R(cond.p, Nil) ELSE
        With([stmt1 \in {statement(cond.p)} |->
            IF stmt1.node = Nil THEN R(stmt1.p, Nil)
            ELSE R(stmt1.p, [node |-> "IfStatement", Source |-> c.Source,
                             Condition |-> cond.node, Statement1 |-> stmt1.node,
                             Statement2 |-> [node |-> "Empty", Source |-> ZeroSource]])])])

\* The 'if' case of parser.statement leaving Statement2 nil without an else
\* clause
ifCase_nilElse(ps, c) ==
    With([cond \in {expression(expect(ps, "TokIf").p)} |->
        IF cond.node = Nil THEN R(cond.p, Nil) ELSE
        With([stmt1 \in {statement(cond.p)} |->
            IF stmt1.node = Nil THEN R(stmt1.p, Nil)
            ELSE IF empty(stmt1.p) \/ curr(stmt1.p).Type # "TokElse"
            THEN R(stmt1.p, [node |-> "IfStatement", Source |-> c.Source,
                             Condition |-> cond.node, Statement1 |-> stmt1.node,
                             Statement2 |-> Nil])
            ELSE elseCase(c, cond, stmt1)])])

\* The 'if' case of parser.statement
ifCase(ps, c) ==
    With([cond \in {expression(expect(ps, "TokIf").p)} |->
        IF cond.node = Nil THEN R(cond.p, Nil) ELSE
        With([stmt1 \in {statement(cond.p)} |->
            IF stmt1.node = Nil THEN R(stmt1.p, Nil)
            ELSE IF empty(stmt1.p) \/ curr(stmt1.p).Type # "TokElse"
            THEN R(stmt1.p, [node |-> "IfStatement", Source |-> c.Source,
                             Condition |-> cond.node, Statement1 |-> stmt1.node,
                             Statement2 |-> [node |-> "Empty", Source |-> ZeroSource]])
            ELSE elseCase(c, cond, stmt1)])])

\* The 'while' case of parser.statement
whileCase(ps, c) ==
    With([cond \in {expression(expect(ps, "TokWhile").p)} |->
        IF cond.node = Nil THEN R(cond.p, Nil) ELSE
        With([stmt \in {statement(cond.p)} |->
            IF stmt.node = Nil THEN R(stmt.p, Nil)
            ELSE R(stmt.p, [node |-> "WhileStatement", Source |-> c.Source,
                            Condition |-> cond.node, Statement |-> stmt.node])])])

\* The '=' case at the end of parser.statement with the two sides exchanged
assignCase_swapped(expr, middle) ==
    With([right \in {expression(expect(expr.p, "TokAssign").p)} |->
        IF right.node = Nil THEN R(right.p, Nil) ELSE
        With([e2 \in {expect(right.p, "TokSemiColon")} |->
            IF ~e2.ok THEN R(e2.p, Nil)
            ELSE R(e2.p, [node |-> "Assignment", Left |-> right.node, Right |-> expr.node,
                          Source |-> middle.Source])])])

\* The '=' case at the end of parser.statement: '=' expression ';'
assignCase(expr, middle) ==
    With([right \in {expression(expect(expr.p, "TokAssign").p)} |->
        IF right.node = Nil THEN R(right.p, Nil) ELSE
        With([e2 \in {expect(right.p, "TokSemiColon")} |->
            IF ~e2.ok THEN R(e2.p, Nil)
            ELSE R(e2.p, [node |-> "Assignment", Left |-> expr.node, Right |-> right.node,
                          Source |-> middle.Source])])])

\* The end of parser.statement: an expression, then '=' expression ';' or ';'
exprCase(ps) ==
    With([expr \in {expression(ps)} |->
        IF expr.node = Nil THEN R(expr.p, Nil) ELSE
        LET ue == unexpectedEnd(expr.p) IN
        IF ue.ok THEN R(ue.p, Nil)
        ELSE IF curr(expr.p).Type = "TokAssign" THEN assignCase(expr, curr(expr.p))
        ELSE With([e1 \in {expect(expr.p, "TokSemiColon")} |->
                 IF e1.ok
                 THEN R(e1.p, [node |-> "ExpressionStatement", Expression |-> expr.node])
                 ELSE R(e1.p, Nil)])])

\* parser.statement (parser.go has the ';' and 'var' cases only)
statement(ps) ==
    IF ps.panic THEN R(ps, Nil) ELSE
    LET ue == unexpectedEnd(ps) IN
    IF ue.ok THEN R(ue.p, Nil) ELSE
    LET c == curr(ps) IN
    IF c.Type = "TokSemiColon"
    THEN R(advance(ps), [node |-> "Empty", Source |-> c.Source])
    ELSE IF c.Type = "TokVar" THEN varCase(ps, c)
    ELSE IF ~Old /\ c.Type = "TokIf" THEN ifCase(ps, c)
    ELSE IF ~Old /\ c.Type = "TokWhile" THEN whileCase(ps, c)
    ELSE IF ~Old /\ c.Type = "TokLeftCurly" THEN block(ps)
    ELSE exprCase(ps)

\* The sources Lex is run on: every string of at most MaxSrc characters over
\* CoreChars, every string of at most MaxSrcFull characters over FullChars,
\* and the keywords with their neighbours.
CoreChars == {"i", "f", "1", "=", ";", " ", "\n", "@", "&"}

FullChars == CoreChars \cup {"x", "_", "0", "!", "+", "-", "*", "/", "(", ")",
                             "{", "}", "[", "]", "<", ">", "\t", "#"}

SeqsUpTo(S, n) == UNION {[1..k -> S] : k \in 0..n}

Prefixes(S) == UNION {{SubSeq(sq, 1, k) : k \in 0..Len(sq)} : sq \in S}

\* Around every keyword: the keyword, the keyword with one more letter,
\* digit or underscore before or after it, two words on two lines, and
\* every prefix of these.
KeywordSources ==
    Prefixes(UNION {{w, w \o <<"y">>, w \o <<"1">>, w \o <<"_">>, <<"_">> \o w,
                     <<"x">> \o w, w \o <<"\n">> \o w, w \o <<" ", "x">>} :
                    w \in {ConstantTokens[t] : t \in KeywordTypes}})

Sources ==
    SeqsUpTo(CoreChars, MaxSrc) \cup SeqsUpTo(FullChars, MaxSrcFull) \cup KeywordSources

\* The file name passed to Lex.
FileName == "test"

LexIdle ==
    /\ source = <<>>
    /\ l = Nil
    /\ tokens = <<>>
    /\ lexpc = "idle"
    /\ lexResult = Nil
    /\ first = Nil

ParseIdle ==
    /\ rev = "none"
    /\ toks = <<>>
    /\ p = Nil
    /\ statements = <<>>
    /\ parsepc = "idle"
    /\ parseResult = Nil

\* InitLex with a plausible slip: the field line is left at its zero value.
InitLex_lineZero ==
    /\ source \in Sources
    /\ l = [fname |-> FileName, line |-> 0, pos |-> 0, err |-> Nil]
    /\ tokens = <<>>
    /\ lexpc = "loop"
    /\ lexResult = Nil
    /\ first = Nil
    /\ ParseIdle

\* Lex, up to its loop: the lexerState and the empty token slice.
InitLex ==
    /\ source \in Sources
    /\ l = [fname |-> FileName, line |-> 1, pos |-> 0, err |-> Nil]
    /\ tokens = <<>>
    /\ lexpc = "loop"
    /\ lexResult = Nil
    /\ first = Nil
    /\ ParseIdle

\* One iteration of the loop of Lex: a call of next(), then break on nil or
\* append.  A panic inside next() ends the call of Lex without a result.
LexStep ==
    /\ lexpc = "loop"
    /\ ~lexEmpty(l)
    /\ LET r == next(l) IN
       IF r.panic
       THEN /\ lexpc' = "panic"
            /\ l' = r.ls
            /\ tokens' = tokens
       ELSE /\ l' = r.ls
            /\ lexpc' = IF r.tok = Nil THEN "break" ELSE "loop"
            /\ tokens' = IF r.tok = Nil THEN tokens ELSE Append(tokens, r.tok)
    /\ UNCHANGED <<source, lexResult, first>>
    /\ UNCHANGED parseVars

\* LexReturn with a plausible slip: the tokens scanned so far are returned
\* next to the error.
LexReturn_partial ==
    /\ \/ lexpc = "loop" /\ lexEmpty(l)
       \/ lexpc = "break"
    /\ lexpc' = "done"
    /\ lexResult' = [tokens |-> Slice(tokens), err |-> l.err]
    /\ UNCHANGED <<source, l, tokens, first>>
    /\ UNCHANGED parseVars

\* The end of Lex: nil and the error if one was recorded, else the tokens.
LexReturn ==
    /\ \/ lexpc = "loop" /\ lexEmpty(l)
       \/ lexpc = "break"
    /\ lexpc' = "done"
    /\ lexResult' = IF l.err # Nil
                    THEN [tokens |-> Nil, err |-> l.err]
                    ELSE [tokens |-> Slice(tokens), err |-> Nil]
    /\ UNCHANGED <<source, l, tokens, first>>
    /\ UNCHANGED parseVars

NextLex == LexStep \/ LexReturn

SpecLex == InitLex /\ [][NextLex]_vars

\* The values of a token list joined with a single space.
RECURSIVE Join(_)
Join(ts) ==
    IF ts = <<>> THEN <<>>
    ELSE IF Len(ts) = 1 THEN ts[1].Value
    ELSE ts[1].Value \o <<" ">> \o Join(Tail(ts))

\* A second call of Lex, on the values of the tokens the first call
\* returned joined with a single space; first keeps the tokens of the first
\* call.
Relex ==
    /\ lexpc = "done" /\ first = Nil
    /\ lexResult.tokens # Nil
    /\ first' = lexResult.tokens
    /\ source' = Join(lexResult.tokens.elems)
    /\ l' = [fname |-> FileName, line |-> 1, pos |-> 0, err |-> Nil]
    /\ tokens' = <<>>
    /\ lexpc' = "loop"
    /\ lexResult' = Nil
    /\ UNCHANGED parseVars

NextRelex == LexStep \/ LexReturn \/ Relex

SpecRelex == InitLex /\ [][NextRelex]_vars

\* The token sequences Parse is run on.  Token i is on line i of the file.
Const(typ) == [Type |-> typ, Value |-> ConstantTokens[typ]]

Ident == [Type |-> "TokIdentifier", Value |-> <<"x">>]

One == [Type |-> "TokInteger", Value |-> <<"1">>]

\* An integer lexeme of twenty digits, above MaxInt64.
Huge == [Type |-> "TokInteger", Value |-> [i \in 1..20 |-> "9"]]

MkToks(items) ==
    [i \in 1..Len(items) |->
        [Type |-> items[i].Type, Value |-> items[i].Value,
         Source |-> [FileName |-> FileName, Line |-> i]]]

\* every single token, and every sequence of at most MaxToks of the tokens
\* var x 1 ; [ ] = (
GeneralInputs ==
    {<<it>> : it \in {Const(t) : t \in DOMAIN ConstantTokens} \cup {Ident, One}}
      \cup SeqsUpTo({Const("TokVar"), Ident, One, Const("TokSemiColon"),
                     Const("TokLeftSquare"), Const("TokRightSquare"),
                     Const("TokEquals"), Const("TokLeftBracket")}, MaxToks)

\* the token sequences of at most n subscripts  [ x ]  or  [ 1 ]
RECURSIVE SubscriptSeqs(_)
SubscriptSeqs(n) ==
    IF n = 0 THEN {<<>>}
    ELSE LET S == SubscriptSeqs(n - 1) IN
         S \cup {sq \o <<Const("TokLeftSquare"), i, Const("TokRightSquare")>> :
                    sq \in S, i \in {Ident, One}}

Tails == SeqsUpTo({Const("TokSemiColon"), Const("TokRightSquare"), Ident}, MaxTail)

\* an optional unary operator, x or 1, at most MaxSubs subscripts, at most
\* MaxTail further tokens, and every prefix of these
SubscriptInputs ==
    Prefixes({pre \o <<b>> \o sub \o tl :
                 pre \in {<<>>, <<Const("TokAmpersand")>>, <<Const("TokDash")>>,
                          <<Const("TokStar")>>},
                 b \in {Ident, One},
                 sub \in SubscriptSeqs(MaxSubs),
                 tl \in Tails})

\* the token sequences of the types nested at most d deep
RECURSIVE TypeSeqs(_)
TypeSeqs(d) ==
    IF d = 0 THEN {<<Const("TokInt")>>, <<Const("TokChar")>>}
    ELSE LET T == TypeSeqs(d - 1) IN
         T \cup {<<Const("TokArray"), Const("TokLeftBracket"), n, Const("TokRightBracket"),
                   Const("TokOf")>> \o t : n \in {One, Huge}, t \in T}
           \cup {<<Const("TokPtr"), Const("TokTo")>> \o t : t \in T}
           \cup {<<Const("TokLeftBracket")>> \o t \o <<Const("TokRightBracket")>> : t \in T}

\* 'var x', a type, at most MaxTail further tokens, and every prefix of
\* these; 'var x', any one token and an optional ';'
DeclInputs ==
    Prefixes({<<Const("TokVar"), Ident>> \o t \o tl :
                 t \in TypeSeqs(MaxTypeDepth),
                 tl \in SeqsUpTo({Const("TokSemiColon"), Const("TokRightBracket"), Ident},
                                 MaxTail)})
      \cup {<<Const("TokVar"), Ident, it>> \o tl :
                 it \in {Const(t) : t \in DOMAIN ConstantTokens} \cup {Ident, One},
                 tl \in {<<>>, <<Const("TokSemiColon")>>}}

\* the token kinds of the binary operators
BinaryTokens == {"TokEquals", "TokNotEqual", "TokLessThan", "TokGreaterThan",
                 "TokPlus", "TokDash", "TokStar", "TokFwdSlash"}

\* the token sequences  x op x ... op x  of at most n binary operators
RECURSIVE OpChains(_)
OpChains(n) ==
    IF n = 0 THEN {<<Ident>>}
    ELSE LET S == OpChains(n - 1) IN
         S \cup {sq \o <<Const(o), Ident>> : sq \in S, o \in BinaryTokens}

\* a chain of at most MaxOps operators as an expression statement, as the
\* right side of an assignment, in brackets and as the condition of an if
\* and of a while; a bracketed operation as the left operand of a second
\* one; an equality of two comparisons; and every prefix of these
OpInputs ==
    Prefixes({pre \o e \o post :
                 e \in OpChains(MaxOps),
                 pre \in {<<>>, <<Ident, Const("TokAssign")>>, <<Const("TokIf")>>,
                          <<Const("TokWhile")>>},
                 post \in {<<Const("TokSemiColon")>>}}
      \cup {<<Const("TokLeftBracket")>> \o e \o <<Const("TokRightBracket"),
                                                  Const("TokSemiColon")>> :
                 e \in OpChains(MaxOps)}
      \cup {<<Const("TokLeftBracket"), Ident, Const(o1), Ident, Const("TokRightBracket"),
               Const(o2), Ident, Const("TokSemiColon")>> :
                 o1 \in BinaryTokens, o2 \in BinaryTokens}
      \cup {<<Ident, Const(r1), Ident, Const(e), Ident, Const(r2), Ident,
               Const("TokSemiColon")>> :
                 r1 \in {"TokLessThan", "TokGreaterThan"},
                 e \in {"TokEquals", "TokNotEqual"},
                 r2 \in {"TokLessThan", "TokGreaterThan"}})

\* the token sequences of the statements nested at most d deep:  ;  and
\* x ;  then if, if-else, while and block around a statement
RECURSIVE StmtSeqs(_)
StmtSeqs(d) ==
    IF d = 0 THEN {<<Const("TokSemiColon")>>, <<Ident, Const("TokSemiColon")>>}
    ELSE LET S == StmtSeqs(d - 1) IN
         S \cup {<<Const("TokIf"), Ident>> \o st : st \in S}
           \cup {<<Const("TokIf"), Ident>> \o st \o <<Const("TokElse")>> \o s2 :
                     st \in S, s2 \in StmtSeqs(0)}
           \cup {<<Const("TokWhile"), Ident>> \o st : st \in S}
           \cup {<<Const("TokLeftCurly")>> \o st \o <<Const("TokRightCurly")>> : st \in S}

\* a statement nested at most MaxStmtDepth deep, two statements nested one
\* level less deep, a block of two simple statements, and every prefix of
\* these
StmtInputs ==
    Prefixes(StmtSeqs(MaxStmtDepth)
               \cup {s1 \o s2 : s1 \in StmtSeqs(MaxStmtDepth - 1),
                                s2 \in StmtSeqs(MaxStmtDepth - 1)}
               \cup {<<Const("TokLeftCurly")>> \o s1 \o s2 \o <<Const("TokRightCurly")>> :
                         s1 \in StmtSeqs(0), s2 \in StmtSeqs(0)})

\* left = right  with an identifier, an integer or one binary operation on
\* each side, followed by nothing, by ';' or by an identifier
AssignInputs ==
    {left \o <<Const("TokAssign")>> \o right \o tl :
        left \in OpChains(1) \cup {<<One>>},
        right \in OpChains(1) \cup {<<One>>},
        tl \in {<<>>, <<Const("TokSemiColon")>>, <<Ident>>}}

UnaryTokens == {"TokAmpersand", "TokDash", "TokStar"}

\* two unary operators on x, a unary operator on the left and on the right
\* operand of a binary operation, each with ';', and every prefix of these
UnaryInputs ==
    Prefixes({<<Const(u1), Const(u2), Ident, Const("TokSemiColon")>> :
                 u1 \in UnaryTokens, u2 \in UnaryTokens}
      \cup {<<Const(u), Ident, Const(o), Ident, Const("TokSemiColon")>> :
                 u \in UnaryTokens, o \in BinaryTokens}
      \cup {<<Ident, Const(o), Const(u), Ident, Const("TokSemiColon")>> :
                 u \in UnaryTokens, o \in BinaryTokens})

\* an assignment and a declaration as the statements of an if with else,
\* of a while and of a block, and every prefix of these
NestedInputs ==
    LET assign == <<Ident, Const("TokAssign"), One, Const("TokSemiColon")>>
        decl   == <<Const("TokVar"), Ident, Const("TokInt"), Const("TokSemiColon")>>
    IN  Prefixes({<<Const("TokIf"), Ident>> \o s1 \o <<Const("TokElse")>> \o s2 :
                     s1 \in {assign, decl}, s2 \in {assign, decl}}
          \cup {<<Const("TokWhile"), Ident>> \o s1 : s1 \in {assign, decl}}
          \cup {<<Const("TokLeftCurly")>> \o s1 \o s2 \o <<Const("TokRightCurly")>> :
                     s1 \in {assign, decl}, s2 \in {assign, decl}})

TokenInputs ==
    {MkToks(sq) : sq \in GeneralInputs \cup SubscriptInputs \cup DeclInputs
                          \cup OpInputs \cup StmtInputs \cup AssignInputs
                          \cup UnaryInputs \cup NestedInputs}

\* Parse, up to its loop: the parser and the empty statement slice.
InitParse ==
    /\ rev \in Revisions
    /\ toks \in TokenInputs
    /\ p = [pos |-> 0, err |-> Nil, panic |-> FALSE, errs |-> <<>>, late |-> 0]
    /\ statements = <<>>
    /\ parsepc = "loop"
    /\ parseResult = Nil
    /\ LexIdle

\* One iteration of the loop of Parse in which the statement for a ';'
\* leaves the cursor where it was
ParseStep_noProgress ==
    /\ parsepc = "loop"
    /\ ~empty(p)
    /\ LET r == statement(p) IN
       /\ p' = IF r.node # Nil /\ r.node.node = "Empty" THEN p ELSE r.p
       /\ parsepc' = IF r.p.panic THEN "panic"
                     ELSE IF r.node = Nil THEN "break" ELSE "loop"
       /\ statements' = IF r.p.panic \/ r.node = Nil THEN statements
                        ELSE Append(statements, r.node)
    /\ UNCHANGED <<rev, toks, parseResult>>
    /\ UNCHANGED lexVars

\* One iteration of the loop of Parse: a call of statement(), then break on
\* nil or append.  A panic inside statement() ends Parse without a result.
ParseStep ==
    /\ parsepc = "loop"
    /\ ~empty(p)
    /\ LET r == statement(p) IN
       /\ p' = r.p
       /\ parsepc' = IF r.p.panic THEN "panic"
                     ELSE IF r.node = Nil THEN "break" ELSE "loop"
       /\ statements' = IF r.p.panic \/ r.node = Nil THEN statements
                        ELSE Append(statements, r.node)
    /\ UNCHANGED <<rev, toks, parseResult>>
    /\ UNCHANGED lexVars

\* The end of Parse returning the statements parsed so far together with
\* the error
ParseReturn_partial ==
    /\ \/ parsepc = "loop" /\ empty(p)
       \/ parsepc = "break"
    /\ parsepc' = "done"
    /\ parseResult' = [stmts |-> Slice(statements), err |-> p.err]
    /\ UNCHANGED <<rev, toks, p, statements>>
    /\ UNCHANGED lexVars

\* The end of Parse: nil and the error if one is recorded, else the
\* statements.
ParseReturn ==
    /\ \/ parsepc = "loop" /\ empty(p)
       \/ parsepc = "break"
    /\ parsepc' = "done"
    /\ parseResult' = IF p.err # Nil
                      THEN [stmts |-> Nil, err |-> p.err]
                      ELSE [stmts |-> Slice(statements), err |-> Nil]
    /\ UNCHANGED <<rev, toks, p, statements>>
    /\ UNCHANGED lexVars

NextParse == ParseStep \/ ParseReturn

SpecParse == InitParse /\ [][NextParse]_vars

(***************************************************************************)
(* Properties of the lexer.                                                *)
(***************************************************************************)
\* The position of the first character at or after pos that is not
\* whitespace (the length of the source if there is none).
RECURSIVE skipSpace(_)
skipSpace(pos) ==
    IF pos < Len(source) /\ source[pos + 1] \in {" ", "\n", "\t", "\r"}
    THEN skipSpace(pos + 1)
    ELSE pos

\* Where the next token must start, and the character there.
TokenStart == skipSpace(l.pos)

AtTokenStart == lexpc = "loop" /\ TokenStart < Len(source)

StartChar == source[TokenStart + 1]

\* The character after the one the next token starts with, if any.
HasLookahead == TokenStart + 1 < Len(source)

Lookahead == source[TokenStart + 2]

\* This step appended exactly one token of the given kind and value.
Emitted(typ, val) ==
    /\ lexpc' = "loop"
    /\ l'.err = Nil
    /\ Len(tokens') = Len(tokens) + 1
    /\ SubSeq(tokens', 1, Len(tokens)) = tokens
    /\ tokens'[Len(tokens')].Type = typ
    /\ tokens'[Len(tokens')].Value = val

\* The single-character symbols of the token set and their kinds.
SingleSymbols == {"+", "-", "*", "/", "&", "(", ")", "{", "}", "[", "]", ";", "<", ">"}

SymbolKind(c) == CHOOSE t \in DOMAIN ConstantTokens : ConstantTokens[t] = <<c>>

\* The characters that occur in the symbols of the token set.
SymbolChars == SingleSymbols \cup {"=", "!"}

LetterChars == LowerCase \cup UpperCase

DigitChars == {"0", "1", "2", "3", "4", "5", "6", "7", "8", "9"}

\* A character that can start or continue no token and is not whitespace.
InvalidChar(c) ==
    /\ c \notin {" ", "\n", "\t", "\r"}
    /\ c \notin LetterChars \cup DigitChars \cup {"_"}
    /\ c \notin SymbolChars

\* C2: at '=' the lexer emits Equals "==" and advances two positions when
\* the next character is '=', and otherwise emits Assign "=" and advances
\* one position, also when '=' is the last character of the input.
C2_EqualsLookahead ==
    [][(AtTokenStart /\ StartChar = "=") =>
          IF HasLookahead /\ Lookahead = "="
          THEN Emitted("TokEquals", <<"=", "=">>) /\ l'.pos = TokenStart + 2
          ELSE Emitted("TokAssign", <<"=">>) /\ l'.pos = TokenStart + 1]_vars

\* C6: every single-character symbol of the token set lexes to exactly one
\* token of its kind and advances the cursor by one.
C6_SingleCharSymbols ==
    [][(AtTokenStart /\ StartChar \in SingleSymbols) =>
          /\ Emitted(SymbolKind(StartChar), <<StartChar>>)
          /\ l'.pos = TokenStart + 1]_vars

\* C7: at '!' the input "!=" yields one NotEqual token and a '!' followed
\* by anything else lexes without error as a Not token.
C7_BangLexes ==
    [][(AtTokenStart /\ StartChar = "!") =>
          IF HasLookahead /\ Lookahead = "="
          THEN Emitted("TokNotEqual", <<"!", "=">>) /\ l'.pos = TokenStart + 2
          ELSE Emitted("TokNot", <<"!">>) /\ l'.pos = TokenStart + 1]_vars

\* C9: at an invalid character where a token must start, the lexer stops
\* at that character with an error, and Lex then returns that error with a
\* nil token list whatever was scanned before.
C9_InvalidCharIsFatal ==
    [][/\ (AtTokenStart /\ InvalidChar(StartChar)) =>
            /\ lexpc' = "break"
            /\ l'.err # Nil
            /\ l'.pos = TokenStart
            /\ tokens' = tokens
       /\ (lexpc = "break" /\ l.err # Nil /\ lexpc' # lexpc) =>
            /\ lexpc' = "done"
            /\ lexResult'.tokens = Nil
            /\ lexResult'.err = l.err]_vars

\* C9 witness: Lex returned nil and an error at an invalid character after
\* it had scanned tokens.
C9_Witness ==
    /\ lexpc = "done"
    /\ Len(tokens) > 0
    /\ lexResult.tokens = Nil
    /\ lexResult.err # Nil
    /\ l.pos < Len(source)
    /\ InvalidChar(source[l.pos + 1])

\* The end of the maximal run of characters of S that starts at pos.
RECURSIVE RunEnd(_, _)
RunEnd(pos, S) ==
    IF pos < Len(source) /\ source[pos + 1] \in S THEN RunEnd(pos + 1, S) ELSE pos

\* The kinds and values of the maximal lexemes of the source from pos on,
\* in source order.
RECURSIVE Lexemes(_)
Lexemes(pos) ==
    IF pos >= Len(source) THEN <<>>
    ELSE LET c == source[pos + 1] IN
         IF c \in {" ", "\n", "\t", "\r"} THEN Lexemes(pos + 1)
         ELSE IF c \in LetterChars \cup {"_"}
         THEN LET e == RunEnd(pos, LetterChars \cup DigitChars \cup {"_"})
                  w == SubSeq(source, pos + 1, e)
              IN  <<IF \E t \in KeywordTypes : ConstantTokens[t] = w
                    THEN <<CHOOSE t \in KeywordTypes : ConstantTokens[t] = w, w>>
                    ELSE <<"TokIdentifier", w>>>> \o Lexemes(e)
         ELSE IF c \in DigitChars
         THEN LET e == RunEnd(pos, DigitChars)
              IN  <<<<"TokInteger", SubSeq(source, pos + 1, e)>>>> \o Lexemes(e)
         ELSE IF c \in {"=", "!"} /\ pos + 1 < Len(source) /\ source[pos + 2] = "="
         THEN <<<<IF c = "=" THEN "TokEquals" ELSE "TokNotEqual", <<c, "=">>>>>>
                 \o Lexemes(pos + 2)
         ELSE IF c = "=" THEN <<<<"TokAssign", <<c>>>>>> \o Lexemes(pos + 1)
         ELSE IF c = "!" THEN <<<<"TokNot", <<c>>>>>> \o Lexemes(pos + 1)
         ELSE IF c \in SingleSymbols
         THEN <<<<SymbolKind(c), <<c>>>>>> \o Lexemes(pos + 1)
         ELSE <<>>

\* The source holds only whitespace, identifiers, integers, keywords and
\* symbols of the token set.
ValidSource == \A i \in 1..Len(source) : ~InvalidChar(source[i])

\* C10: on a source of identifiers, integers, keywords and symbols Lex
\* returns, in source order, one token per maximal lexeme, each with the
\* kind of the lexeme and the matched text as its value.
C10_TokensAreLexemes ==
    (lexpc \in {"done", "panic"} /\ ValidSource) =>
        /\ lexpc = "done"
        /\ lexResult.err = Nil
        /\ lexResult.tokens # Nil
        /\ [i \in 1..Len(lexResult.tokens.elems) |->
               <<lexResult.tokens.elems[i].Type, lexResult.tokens.elems[i].Value>>]
             = Lexemes(0)

\* The number of '\n' among the first pos characters of the source.
RECURSIVE Newlines(_)
Newlines(pos) ==
    IF pos = 0 THEN 0
    ELSE Newlines(pos - 1) + (IF source[pos] = "\n" THEN 1 ELSE 0)

\* Where the i-th token of ts starts in the source: after the whitespace
\* that follows the text of the token before it.
RECURSIVE TokStart(_, _)
TokStart(ts, i) ==
    IF i = 1 THEN skipSpace(0)
    ELSE skipSpace(TokStart(ts, i - 1) + Len(ts[i - 1].Value))

\* C11: the line counter is 1 plus the number of '\n' consumed so far, and
\* every token Lex returns carries the file name passed to Lex and the line
\* 1 plus the number of '\n' before the first character of the token.
C11_LineCounter ==
    lexpc # "idle" =>
        /\ l.line = 1 + Newlines(l.pos)
        /\ (lexpc = "done" /\ lexResult.tokens # Nil) =>
               \A i \in 1..Len(lexResult.tokens.elems) :
                   lexResult.tokens.elems[i].Source
                     = [FileName |-> FileName,
                        Line |-> 1 + Newlines(TokStart(lexResult.tokens.elems, i))]

\* C11 witness: Lex has returned tokens on two different lines.
C11_Witness ==
    /\ lexpc = "done"
    /\ lexResult.tokens # Nil
    /\ Len(lexResult.tokens.elems) >= 2
    /\ lexResult.tokens.elems[1].Source.Line = 1
    /\ lexResult.tokens.elems[2].Source.Line = 2

\* The keyword table of the language: the words and their token kinds.
KeywordTable ==
    {<<<<"i", "f">>, "TokIf">>, <<<<"e", "l", "s", "e">>, "TokElse">>,
     <<<<"w", "h", "i", "l", "e">>, "TokWhile">>, <<<<"v", "a", "r">>, "TokVar">>,
     <<<<"i", "n", "t">>, "TokInt">>, <<<<"a", "r", "r", "a", "y">>, "TokArray">>,
     <<<<"o", "f">>, "TokOf">>, <<<<"p", "t", "r">>, "TokPtr">>,
     <<<<"t", "o">>, "TokTo">>, <<<<"c", "h", "a", "r">>, "TokChar">>}

\* The token kind of the word w: the keyword's kind, else Identifier.
WordKind(w) ==
    IF \E k \in KeywordTable : k[1] = w
    THEN (CHOOSE k \in KeywordTable : k[1] = w)[2]
    ELSE "TokIdentifier"

\* The end of the maximal run of letters, digits and '_' at the token start.
WordEnd == RunEnd(TokenStart, LetterChars \cup DigitChars \cup {"_"})

\* C12: at a letter or underscore the lexer consumes the maximal run of
\* letters, digits and underscores and emits one token whose value is the
\* run: the keyword token when the whole run is a keyword, else Identifier.
C12_KeywordOrIdentifier ==
    [][(AtTokenStart /\ StartChar \in LetterChars \cup {"_"}) =>
          /\ Emitted(WordKind(SubSeq(source, TokenStart + 1, WordEnd)),
                     SubSeq(source, TokenStart + 1, WordEnd))
          /\ l'.pos = WordEnd]_vars

\* C12 witness: Lex has returned a single Identifier token whose value
\* starts with a keyword and goes on with a digit.
C12_Witness ==
    /\ lexpc = "done"
    /\ lexResult.tokens # Nil
    /\ Len(lexResult.tokens.elems) = 1
    /\ lexResult.tokens.elems[1].Type = "TokIdentifier"
    /\ \E k \in KeywordTable :
          lexResult.tokens.elems[1].Value = k[1] \o <<"1">>

\* The kinds and values of a token list.
KindsAndValues(ts) == [i \in 1..Len(ts) |-> <<ts[i].Type, ts[i].Value>>]

\* The second call of Lex has returned the tokens of the first call, by
\* kind and value.
RelexedSame ==
    /\ lexpc # "panic"
    /\ lexpc = "done" =>
           /\ lexResult.err = Nil
           /\ lexResult.tokens # Nil
           /\ KindsAndValues(lexResult.tokens.elems) = KindsAndValues(first.elems)

\* C24: when Lex succeeds with tokens T, Lex on the values of T joined with
\* a single space succeeds and gives tokens of the same kinds and values in
\* the same order.
C24_RelexSameTokens == first # Nil => RelexedSame

\* C24 for the token lists that do not end with '='.
C24_RelexUnlessFinalAssign ==
    (first # Nil /\ first.elems # <<>>
       /\ first.elems[Len(first.elems)].Type # "TokAssign") => RelexedSame

(***************************************************************************)
(* Properties of the parser.                                               *)
(***************************************************************************)
New == rev = "part_003"

\* C1: for every token sequence, also one that ends in the middle of a
\* statement, no step of Parse reads the token slice out of range or
\* dereferences nil: Parse never panics.
C1_NoPanic == parsepc # "panic"

\* The node that terminal builds for an identifier or integer token.
Leaf(t) == [node |-> IF t.Type = "TokInteger" THEN "Integer" ELSE "Variable",
            Source |-> t.Source, Value |-> t.Value]

UnaryOf(typ) == CASE typ = "TokAmpersand" -> "UnaryAddress"
                  [] typ = "TokDash"      -> "UnaryMinus"
                  [] typ = "TokStar"      -> "UnaryDereference"

LeafTypes == {"TokIdentifier", "TokInteger"}

\* The input is  op base [ index ] ;  with op one of & - * and base and
\* index an identifier or an integer.
IsUnarySubscript ==
    /\ Len(toks) = 6
    /\ toks[1].Type \in {"TokAmpersand", "TokDash", "TokStar"}
    /\ toks[2].Type \in LeafTypes
    /\ toks[3].Type = "TokLeftSquare"
    /\ toks[4].Type \in LeafTypes
    /\ toks[5].Type = "TokRightSquare"
    /\ toks[6].Type = "TokSemiColon"

ParsedTo(stmts) ==
    /\ parseResult.err = Nil
    /\ parseResult.stmts = Slice(stmts)

\* C3 as claimed: op base [ index ] ; parses as the unary operator applied
\* to the whole subscript expression.
C3_UnaryOverSubscript ==
    (New /\ parsepc = "done" /\ IsUnarySubscript) =>
        ParsedTo(<<[node |-> "ExpressionStatement",
                    Expression |->
                        [node |-> "UnaryOperator", Type |-> UnaryOf(toks[1].Type),
                         Value |-> [node |-> "Subscript", Value |-> Leaf(toks[2]),
                                    Index |-> Leaf(toks[4])]]]>>)

\* C3 as amended: op base [ index ] ; parses as the subscript of the unary
\* expression: the unary operator takes the terminal alone as its operand.
C3_SubscriptOverUnary ==
    (New /\ parsepc = "done" /\ IsUnarySubscript) =>
        ParsedTo(<<[node |-> "ExpressionStatement",
                    Expression |->
                        [node |-> "Subscript",
                         Value |-> [node |-> "UnaryOperator",
                                    Type |-> UnaryOf(toks[1].Type),
                                    Value |-> Leaf(toks[2])],
                         Index |-> Leaf(toks[4])]]>>)

\* C3 witness: Parse has returned a result for  & x [ 1 ] ;
C3_Witness ==
    /\ New /\ parsepc = "done" /\ IsUnarySubscript
    /\ toks[1].Type = "TokAmpersand" /\ toks[2].Type = "TokIdentifier"
    /\ parseResult.err = Nil

\* C4: once an error is recorded the parser consumes no further token and
\* records no further error, so the error Parse returns is the first one.
C4_StopsAtFirstError ==
    (New /\ parsepc # "idle") =>
        /\ p.late = 0
        /\ Len(p.errs) <= 1
        /\ (parsepc = "done" /\ p.errs # <<>>) => parseResult.err = p.errs[1]

\* The error message starts with the rendered location of si: "file:line",
\* bare or in brackets, and the message text follows it.
HasLocation(err, si) ==
    \E pre \in {SourceString(si), Loc(si)} :
        /\ Len(err.msg) > Len(pre)
        /\ SubSeq(err.msg, 1, Len(pre)) = pre

\* The input starts with  var x array ( N ) of T  where N is an integer
\* lexeme above MaxInt64 and T is int or char.
IsHugeArrayDecl ==
    /\ Len(toks) >= 8
    /\ [i \in 1..7 |-> toks[i].Type]
         = <<"TokVar", "TokIdentifier", "TokArray", "TokLeftBracket", "TokInteger",
             "TokRightBracket", "TokOf">>
    /\ toks[5].Value = Huge.Value
    /\ toks[8].Type \in {"TokInt", "TokChar"}

\* C5: when the array length is out of range, Parse returns no statements
\* and an error located at the integer literal, whatever follows the type.
C5_ArrayLengthError ==
    (parsepc = "done" /\ IsHugeArrayDecl) =>
        /\ parseResult.stmts = Nil
        /\ parseResult.err # Nil
        /\ HasLocation(parseResult.err, toks[5].Source)

\* C8: every error returned by Lex and every error returned by Parse starts
\* with the rendered file:line of the offending character or token.
C8_ErrorsHaveLocation ==
    /\ (lexpc = "done" /\ lexResult.err # Nil) =>
           HasLocation(lexResult.err, [FileName |-> FileName, Line |-> l.line])
    /\ (parsepc = "done" /\ parseResult.err # Nil) =>
           \E i \in 1..Len(toks) : HasLocation(parseResult.err, toks[i].Source)

\* The precedence level of a binary operator token, 1 the loosest: equality,
\* relational, additive, multiplicative.
Level(typ) == CASE typ \in {"TokEquals", "TokNotEqual"}       -> 1
                [] typ \in {"TokLessThan", "TokGreaterThan"} -> 2
                [] typ \in {"TokPlus", "TokDash"}            -> 3
                [] typ \in {"TokStar", "TokFwdSlash"}        -> 4

\* The ast.BinaryOperatorType of a binary operator token.
BinaryOf(typ) == CASE typ = "TokEquals"      -> "BinaryEqual"
                   [] typ = "TokNotEqual"    -> "BinaryNotEqual"
                   [] typ = "TokLessThan"    -> "BinaryLessThan"
                   [] typ = "TokGreaterThan" -> "BinaryGreaterThan"
                   [] typ = "TokPlus"        -> "BinaryAdd"
                   [] typ = "TokDash"        -> "BinarySub"
                   [] typ = "TokStar"        -> "BinaryMul"
                   [] typ = "TokFwdSlash"    -> "BinaryDiv"

\* The node of the binary operator of token op over two nodes.
Bin(op, left, right) ==
    [node |-> "BinaryOperator", Type |-> BinaryOf(op.Type), Left |-> left, Right |-> right]

ExprStmt(e) == [node |-> "ExpressionStatement", Expression |-> e]

\* The input is  a op1 b op2 c ;  with a, b and c an identifier or an integer.
IsTwoOperators ==
    /\ Len(toks) = 6
    /\ \A i \in {1, 3, 5} : toks[i].Type \in LeafTypes
    /\ \A i \in {2, 4} : toks[i].Type \in BinaryTokens
    /\ toks[6].Type = "TokSemiColon"

\* C13: in  a op1 b op2 c ;  with operators of two different precedence
\* levels (equality loosest, then relational, additive, multiplicative) the
\* tighter operation is the operand of the looser one.
C13_Precedence ==
    (New /\ parsepc = "done" /\ IsTwoOperators /\ Level(toks[2].Type) # Level(toks[4].Type)) =>
        ParsedTo(<<ExprStmt(
            IF Level(toks[2].Type) > Level(toks[4].Type)
            THEN Bin(toks[4], Bin(toks[2], Leaf(toks[1]), Leaf(toks[3])), Leaf(toks[5]))
            ELSE Bin(toks[2], Leaf(toks[1]), Bin(toks[4], Leaf(toks[3]), Leaf(toks[5]))))>>)

\* C13 witness: Parse has returned a result for  x + x * x ;
C13_Witness ==
    /\ New /\ parsepc = "done" /\ IsTwoOperators
    /\ toks[2].Type = "TokPlus" /\ toks[4].Type = "TokStar"
    /\ parseResult.err = Nil

\* The input is  a op b ... op c ;  with at least two binary operators.
IsOperatorChain ==
    /\ Len(toks) >= 6 /\ Len(toks) % 2 = 0
    /\ \A i \in 1..(Len(toks) - 1) :
           IF i % 2 = 1 THEN toks[i].Type \in LeafTypes ELSE toks[i].Type \in BinaryTokens
    /\ toks[Len(toks)].Type = "TokSemiColon"

\* The left-associative tree of the first k operators of the input.
RECURSIVE LeftFold(_)
LeftFold(k) ==
    IF k = 0 THEN Leaf(toks[1])
    ELSE Bin(toks[2 * k], LeftFold(k - 1), Leaf(toks[2 * k + 1]))

\* C14: a chain of operators of one level, equality or additive or
\* multiplicative, is accepted and groups to the left:  a op1 b op2 c  is
\* op2(op1(a, b), c).
C14_LeftAssociative ==
    (New /\ parsepc = "done" /\ IsOperatorChain
         /\ \E lv \in {1, 3, 4} :
                \A i \in 1..(Len(toks) - 1) : i % 2 = 0 => Level(toks[i].Type) = lv) =>
        ParsedTo(<<ExprStmt(LeftFold((Len(toks) - 2) \div 2))>>)

\* C14 witness: Parse has returned a result for  x - x + x ;
C14_Witness ==
    /\ New /\ parsepc = "done" /\ IsOperatorChain /\ Len(toks) = 6
    /\ toks[2].Type = "TokDash" /\ toks[4].Type = "TokPlus"
    /\ parseResult.err = Nil

RelationalTokens == {"TokLessThan", "TokGreaterThan"}

\* The input holds two relational operators with nothing between them but
\* identifiers, integers and additive and multiplicative operators: both
\* belong to one comparison.
HasChainedRelational ==
    \E i \in 1..Len(toks), j \in 1..Len(toks) :
        /\ i < j
        /\ toks[i].Type \in RelationalTokens /\ toks[j].Type \in RelationalTokens
        /\ \A k \in (i + 1)..(j - 1) :
               toks[k].Type \in LeafTypes \cup {"TokPlus", "TokDash", "TokStar", "TokFwdSlash"}

\* The input is  ( a op1 b ) op2 c ;
IsBracketedLeft ==
    /\ Len(toks) = 8
    /\ [i \in {1, 5, 8} |-> toks[i].Type]
         = [i \in {1, 5, 8} |-> CASE i = 1 -> "TokLeftBracket" [] i = 5 -> "TokRightBracket"
                                   [] i = 8 -> "TokSemiColon"]
    /\ \A i \in {2, 4, 7} : toks[i].Type \in LeafTypes
    /\ \A i \in {3, 6} : toks[i].Type \in BinaryTokens

\* The input is  a r1 b e c r2 d ;  with r1, r2 relational and e an equality
\* operator.
IsEqualityOfComparisons ==
    /\ Len(toks) = 8
    /\ \A i \in {1, 3, 5, 7} : toks[i].Type \in LeafTypes
    /\ \A i \in {2, 6} : toks[i].Type \in RelationalTokens
    /\ toks[4].Type \in {"TokEquals", "TokNotEqual"}
    /\ toks[8].Type = "TokSemiColon"

\* C15: a comparison holds at most one relational operator.  Parse returns
\* an error and no statements for every input in which a second '<' or '>'
\* follows in the same comparison, in an expression statement, an
\* assignment, a condition or brackets;  ( a < b ) < c ;  and
\* a < b == c < d ;  are accepted.
C15_OneRelational ==
    New =>
        /\ HasChainedRelational => parsepc # "panic"
        /\ (parsepc = "done" /\ HasChainedRelational) =>
               parseResult.err # Nil /\ parseResult.stmts = Nil
        /\ (parsepc = "done" /\ IsBracketedLeft) =>
               ParsedTo(<<ExprStmt(Bin(toks[6], Bin(toks[3], Leaf(toks[2]), Leaf(toks[4])),
                                       Leaf(toks[7])))>>)
        /\ (parsepc = "done" /\ IsEqualityOfComparisons) =>
               ParsedTo(<<ExprStmt(Bin(toks[4], Bin(toks[2], Leaf(toks[1]), Leaf(toks[3])),
                                       Bin(toks[6], Leaf(toks[5]), Leaf(toks[7]))))>>)

\* C15 witness: Parse has returned an error for  x < x > x ;
C15_Witness ==
    /\ New /\ parsepc = "done" /\ Len(toks) = 6
    /\ [i \in 1..6 |-> toks[i].Type]
         = <<"TokIdentifier", "TokLessThan", "TokIdentifier", "TokGreaterThan",
             "TokIdentifier", "TokSemiColon">>
    /\ parseResult.err # Nil

\* The length of the simple statement  ;  or  a ;  at token i, 0 if there
\* is none.
SimpleLen(i) ==
    IF i <= Len(toks) /\ toks[i].Type = "TokSemiColon" THEN 1
    ELSE IF i + 1 <= Len(toks) /\ toks[i].Type \in LeafTypes
              /\ toks[i + 1].Type = "TokSemiColon" THEN 2
    ELSE 0

\* The node of the simple statement at token i.
SimpleNode(i) ==
    IF toks[i].Type = "TokSemiColon" THEN [node |-> "Empty", Source |-> toks[i].Source]
    ELSE ExprStmt(Leaf(toks[i]))

EmptyStatement == [node |-> "Empty", Source |-> ZeroSource]

IfNode(tok, cond, stmt1, stmt2) ==
    [node |-> "IfStatement", Source |-> tok.Source, Condition |-> cond,
     Statement1 |-> stmt1, Statement2 |-> stmt2]

\* The input is  if a if b s1 else s2  with s1 and s2 simple statements.
IsDanglingElse ==
    /\ Len(toks) >= 7
    /\ toks[1].Type = "TokIf" /\ toks[2].Type \in LeafTypes
    /\ toks[3].Type = "TokIf" /\ toks[4].Type \in LeafTypes
    /\ SimpleLen(5) > 0
    /\ 5 + SimpleLen(5) <= Len(toks)
    /\ toks[5 + SimpleLen(5)].Type = "TokElse"
    /\ SimpleLen(6 + SimpleLen(5)) > 0
    /\ Len(toks) = 5 + SimpleLen(5) + SimpleLen(6 + SimpleLen(5))

\* C16: an else belongs to the nearest if:  if a if b s1 else s2  is
\* If(a, If(b, s1, s2), Empty).
C16_DanglingElse ==
    (New /\ parsepc = "done" /\ IsDanglingElse) =>
        ParsedTo(<<IfNode(toks[1], Leaf(toks[2]),
                          IfNode(toks[3], Leaf(toks[4]), SimpleNode(5),
                                 SimpleNode(6 + SimpleLen(5))),
                          EmptyStatement)>>)

\* C16 witness: Parse has returned a result for  if x if x x ; else ;
C16_Witness ==
    /\ New /\ parsepc = "done" /\ IsDanglingElse
    /\ SimpleLen(5) = 2 /\ Len(toks) = 8
    /\ parseResult.err = Nil

\* The IfStatement nodes of a statement, itself and the nested ones.
RECURSIVE IfNodes(_)
IfNodes(n) ==
    IF n = Nil THEN {}
    ELSE CASE n.node = "IfStatement" ->
                {n} \cup IfNodes(n.Statement1) \cup IfNodes(n.Statement2)
           [] n.node = "WhileStatement" -> IfNodes(n.Statement)
           [] n.node = "BlockStatement" ->
                UNION {IfNodes(n.Statements[i]) : i \in DOMAIN n.Statements}
           [] OTHER -> {}

\* The IfStatement nodes of the statements Parse returned.
ReturnedIfs ==
    UNION {IfNodes(parseResult.stmts.elems[i]) : i \in DOMAIN parseResult.stmts.elems}

TokenCount(typ) == Cardinality({i \in 1..Len(toks) : toks[i].Type = typ})

\* C17: in a successful result every IfStatement has a condition and both
\* statements, none of them nil, and the ifs without an else clause, as many
\* as there are more 'if' than 'else' tokens, have the Empty statement as
\* Statement2.
C17_IfStatementComplete ==
    (New /\ parsepc = "done" /\ parseResult.err = Nil) =>
        /\ \A n \in ReturnedIfs :
               n.Condition # Nil /\ n.Statement1 # Nil /\ n.Statement2 # Nil
        /\ Cardinality({n \in ReturnedIfs : n.Statement2 = EmptyStatement})
             = TokenCount("TokIf") - TokenCount("TokElse")

\* C17 witness: Parse has returned a while or a block that holds an if
\* without an else clause
C17_Witness ==
    /\ New /\ parsepc = "done" /\ parseResult.err = Nil
    /\ Len(toks) > 0
    /\ toks[1].Type \in {"TokWhile", "TokLeftCurly"}
    /\ \E n \in ReturnedIfs : n.Statement2 = EmptyStatement

\* The lines of the tokens a node was built from, as far as the node and
\* the nodes below it record them.
RECURSIVE Lines(_)
Lines(n) ==
    IF n = Nil THEN {}
    ELSE CASE n.node \in {"Integer", "Variable", "Empty", "Primitive"} -> {n.Source.Line} \ {0}
           [] n.node = "UnaryOperator" -> Lines(n.Value)
           [] n.node = "Subscript" -> Lines(n.Value) \cup Lines(n.Index)
           [] n.node = "BinaryOperator" -> Lines(n.Left) \cup Lines(n.Right)
           [] n.node = "ExpressionStatement" -> Lines(n.Expression)
           [] n.node = "Assignment" -> {n.Source.Line} \cup Lines(n.Left) \cup Lines(n.Right)
           [] n.node = "IfStatement" ->
                {n.Source.Line} \cup Lines(n.Condition) \cup Lines(n.Statement1)
                  \cup Lines(n.Statement2)
           [] n.node = "WhileStatement" ->
                {n.Source.Line} \cup Lines(n.Condition) \cup Lines(n.Statement)
           [] n.node = "BlockStatement" ->
                {n.Source.Line} \cup UNION {Lines(n.Statements[i]) : i \in DOMAIN n.Statements}
           [] n.node = "Declaration" -> {n.Source.Line} \cup Lines(n.Type)
           [] n.node \in {"ArrayType", "PointerType"} -> {n.Source.Line} \cup Lines(n.Type)

\* C18: every statement Parse appends while no error is recorded is built
\* from the tokens, one at least, between the cursor before and the cursor
\* after it, so that every token belongs to one statement and the
\* statements are in source order;
\* when Parse returns without an error the cursor is at the end of the
\* tokens and the result is the list of these statements; when it returns
\* an error the statement list is nil.
C18_ConsumesAllInOrder ==
    [][
        /\ (statements' # statements /\ p'.err = Nil) =>
              /\ p.pos < p'.pos /\ p'.pos <= Len(toks)
              /\ \E stmt \in {statements'[Len(statements')]} :
                     /\ statements' = Append(statements, stmt)
                     /\ Lines(stmt) # {}
                     /\ Lines(stmt) \subseteq (p.pos + 1)..(p'.pos)
        /\ (parsepc # "done" /\ parsepc' = "done") =>
              IF parseResult'.err = Nil
              THEN p.pos = Len(toks) /\ parseResult'.stmts = Slice(statements)
              ELSE parseResult'.stmts = Nil
    ]_vars

\* C18 witness: Parse has returned two statements without an error
C18_Witness ==
    /\ parsepc = "done" /\ parseResult.err = Nil
    /\ Len(statements) = 2 /\ p.pos = Len(toks)
    /\ statements[2].node = "IfStatement"

\* The token types a type starts with.
TypeStart == {"TokLeftBracket", "TokInt", "TokChar", "TokArray", "TokPtr"}

\* The input starts with  var IDENT T  where no type starts with T.
IsDeclWithoutType ==
    /\ Len(toks) >= 3
    /\ toks[1].Type = "TokVar" /\ toks[2].Type = "TokIdentifier"
    /\ toks[3].Type \notin TypeStart

\* C19: in  var IDENT T ...  where no type starts with the token T, Parse
\* returns no statements and an error that starts with the location of T
\* and the word "unexpected".
C19_DeclWithoutType ==
    (New /\ IsDeclWithoutType) =>
      /\ parsepc # "panic"
      /\ parsepc = "done" =>
        /\ parseResult.stmts = Nil
        /\ parseResult.err # Nil
        /\ HasLocation(parseResult.err, toks[3].Source)
        /\ \E k \in 1..Len(parseResult.err.msg) :
               /\ SubSeq(parseResult.err.msg, 1, k - 1)
                    \in {SourceString(toks[3].Source), Loc(toks[3].Source)}
               /\ parseResult.err.msg[k] = " unexpected "

\* C19 witness: Parse has returned an error for  var x ;
C19_Witness ==
    /\ New /\ parsepc = "done" /\ IsDeclWithoutType
    /\ Len(toks) = 3 /\ toks[3].Type = "TokSemiColon"
    /\ parseResult.err # Nil

\* The token types of the input.
TypesOf == [i \in 1..Len(toks) |-> toks[i].Type]

\* The inputs that end where a rule still needs a token:  a = b  and  a
\* (no ';'),  a op,  if a,  while a,  if a ; else,  { ;  and  { a ;
\* (no '}'),  ( a  (no ')'),  a [  and  a [ b,  a unary operator alone,
\* var  and  var x  and  var x ptr  and  var x int  (no ';').
TruncatedShapes ==
    {<<a, "TokAssign", b>> : a \in LeafTypes, b \in LeafTypes}
      \cup {<<a>> : a \in LeafTypes}
      \cup {<<a, op>> : a \in LeafTypes, op \in BinaryTokens}
      \cup {<<k, a>> : k \in {"TokIf", "TokWhile", "TokLeftBracket"}, a \in LeafTypes}
      \cup {<<"TokIf", a, "TokSemiColon", "TokElse">> : a \in LeafTypes}
      \cup {<<"TokLeftCurly", "TokSemiColon">>}
      \cup {<<"TokLeftCurly", a, "TokSemiColon">> : a \in LeafTypes}
      \cup {<<a, "TokLeftSquare">> : a \in LeafTypes}
      \cup {<<a, "TokLeftSquare", b>> : a \in LeafTypes, b \in LeafTypes}
      \cup {<<op>> : op \in {"TokAmpersand", "TokDash", "TokStar"}}
      \cup {<<"TokVar">>, <<"TokVar", "TokIdentifier">>,
            <<"TokVar", "TokIdentifier", "TokPtr">>,
            <<"TokVar", "TokIdentifier", "TokInt">>}

IsTruncated == TypesOf \in TruncatedShapes

\* The start of the error message for the end of the input after tok.
EndOfInputAfter(tok) ==
    Loc(tok.Source) \o <<" unexpected end of input after ">> \o TokenString(tok)

\* C20: on an input that ends where a rule still needs a token Parse does
\* not panic and returns no statements and the error "unexpected end of
\* input after T" at the location of T, the last token; the cursor never
\* moves past the end of the input and no statement is built from the
\* missing token.
C20_UnexpectedEnd ==
    IsTruncated =>
        /\ parsepc # "panic"
        /\ parsepc # "idle" => p.pos <= Len(toks) /\ statements = <<>>
        /\ parsepc = "done" =>
               /\ parseResult.stmts = Nil
               /\ parseResult.err # Nil
               /\ Len(parseResult.err.msg) >= Len(EndOfInputAfter(toks[Len(toks)]))
               /\ SubSeq(parseResult.err.msg, 1, Len(EndOfInputAfter(toks[Len(toks)])))
                    = EndOfInputAfter(toks[Len(toks)])

\* C20 under the parser of part_003 alone.
C20_UnexpectedEndNew == New => C20_UnexpectedEnd

\* The binary operator tokens both revisions of the parser know under the
\* same name.
CommonOperators == BinaryTokens \ {"TokEquals", "TokNotEqual"}

\* Tokens i .. i+n-1 are an identifier or integer (n = 1) or one binary
\* operation on two of them (n = 3).
IsExprAt(i, n) ==
    /\ n \in {1, 3} /\ i >= 1 /\ i + n - 1 <= Len(toks)
    /\ toks[i].Type \in LeafTypes
    /\ n = 3 => toks[i + 1].Type \in CommonOperators /\ toks[i + 2].Type \in LeafTypes

\* The node of that expression.
ExprAt(i, n) ==
    IF n = 1 THEN Leaf(toks[i]) ELSE Bin(toks[i + 1], Leaf(toks[i]), Leaf(toks[i + 2]))

\* The input is  left = right  followed by rest further tokens, the sides
\* nl and nr tokens long.
IsAssignment(nl, nr, rest) ==
    /\ Len(toks) = nl + 1 + nr + rest
    /\ IsExprAt(1, nl) /\ toks[nl + 1].Type = "TokAssign" /\ IsExprAt(nl + 2, nr)

\* C21: a statement that starts with an expression.  left = right ;  is one
\* Assignment of the two expressions, located at the '='; left ;  is one
\* ExpressionStatement; without the ';' (the input ends, or an identifier
\* follows) Parse returns an error and no statements.
C21_AssignmentOrExpression ==
    parsepc = "done" =>
        \A nl \in {1, 3} :
            /\ \A nr \in {1, 3} :
                   /\ (IsAssignment(nl, nr, 1) /\ toks[Len(toks)].Type = "TokSemiColon") =>
                          ParsedTo(<<[node |-> "Assignment", Left |-> ExprAt(1, nl),
                                      Right |-> ExprAt(nl + 2, nr),
                                      Source |-> toks[nl + 1].Source]>>)
                   /\ (IsAssignment(nl, nr, 0)
                         \/ (IsAssignment(nl, nr, 1)
                              /\ toks[Len(toks)].Type = "TokIdentifier")) =>
                          parseResult.err # Nil /\ parseResult.stmts = Nil
            /\ (Len(toks) = nl + 1 /\ IsExprAt(1, nl)
                   /\ toks[nl + 1].Type = "TokSemiColon") =>
                   ParsedTo(<<ExprStmt(ExprAt(1, nl))>>)
            /\ (Len(toks) = nl + 1 /\ IsExprAt(1, nl)
                   /\ toks[nl + 1].Type = "TokIdentifier") =>
                   parseResult.err # Nil /\ parseResult.stmts = Nil

\* C21 witness: Parse has returned the Assignment for  x + x = 1 ;
C21_Witness ==
    /\ parsepc = "done" /\ IsAssignment(3, 1, 1)
    /\ toks[2].Type = "TokPlus" /\ toks[5].Type = "TokInteger"
    /\ toks[6].Type = "TokSemiColon"
    /\ parseResult.err = Nil

\* Every Subscript in the tree of a node has a base and an index.
RECURSIVE SubscriptsComplete(_)
SubscriptsComplete(n) ==
    IF n = Nil THEN TRUE
    ELSE CASE n.node = "UnaryOperator" -> SubscriptsComplete(n.Value)
           [] n.node = "Subscript" ->
                /\ n.Value # Nil /\ n.Index # Nil
                /\ SubscriptsComplete(n.Value) /\ SubscriptsComplete(n.Index)
           [] n.node = "BinaryOperator" ->
                SubscriptsComplete(n.Left) /\ SubscriptsComplete(n.Right)
           [] n.node = "ExpressionStatement" -> SubscriptsComplete(n.Expression)
           [] n.node = "Assignment" ->
                SubscriptsComplete(n.Left) /\ SubscriptsComplete(n.Right)
           [] n.node = "IfStatement" ->
                /\ SubscriptsComplete(n.Condition) /\ SubscriptsComplete(n.Statement1)
                /\ SubscriptsComplete(n.Statement2)
           [] n.node = "WhileStatement" ->
                SubscriptsComplete(n.Condition) /\ SubscriptsComplete(n.Statement)
           [] n.node = "BlockStatement" ->
                \A i \in DOMAIN n.Statements : SubscriptsComplete(n.Statements[i])
           [] OTHER -> TRUE

\* The parser before its first step.
StartOfInput == [pos |-> 0, err |-> Nil, panic |-> FALSE, errs |-> <<>>, late |-> 0]

\* The input starts with  a [ i ]  and with n such subscripts in all, a and
\* every index an identifier or an integer.
StartsWithSubscripts(n) ==
    /\ Len(toks) >= 1 + 3 * n
    /\ toks[1].Type \in LeafTypes
    /\ \A k \in 1..n :
           /\ toks[3 * k - 1].Type = "TokLeftSquare"
           /\ toks[3 * k].Type \in LeafTypes
           /\ toks[3 * k + 1].Type = "TokRightSquare"

SubscriptNode(base, index) == [node |-> "Subscript", Value |-> base, Index |-> index]

\* C22: the subscript rule makes  a [ i ]  the node Subscript(a, i) and
\* a [ i ] [ j ]  the node Subscript(Subscript(a, i), j), as a rule on its own
\* and inside a statement, and every Subscript of a result without an error
\* has a base and an index.
C22_SubscriptChain ==
    (New /\ parsepc # "idle") =>
        /\ (StartsWithSubscripts(1) /\ Len(toks) = 4) =>
               subscript(StartOfInput)
                 = R([StartOfInput EXCEPT !.pos = 4],
                     SubscriptNode(Leaf(toks[1]), Leaf(toks[3])))
        /\ (StartsWithSubscripts(2) /\ Len(toks) = 7) =>
               subscript(StartOfInput)
                 = R([StartOfInput EXCEPT !.pos = 7],
                     SubscriptNode(SubscriptNode(Leaf(toks[1]), Leaf(toks[3])),
                                   Leaf(toks[6])))
        /\ (parsepc = "done" /\ StartsWithSubscripts(2) /\ Len(toks) = 8
              /\ toks[8].Type = "TokSemiColon") =>
               ParsedTo(<<ExprStmt(SubscriptNode(SubscriptNode(Leaf(toks[1]), Leaf(toks[3])),
                                                 Leaf(toks[6])))>>)
        /\ (parsepc = "done" /\ parseResult.err = Nil) =>
               \A i \in DOMAIN parseResult.stmts.elems :
                   SubscriptsComplete(parseResult.stmts.elems[i])

\* C22 witness: Parse has returned the statement for  x [ 1 ] [ x ] ;
C22_Witness ==
    /\ New /\ parsepc = "done" /\ StartsWithSubscripts(2) /\ Len(toks) = 8
    /\ toks[3].Type = "TokInteger" /\ toks[6].Type = "TokIdentifier"
    /\ parseResult.err = Nil

\* The node of the unary operator of token op over a node.
Un(op, value) == [node |-> "UnaryOperator", Type |-> UnaryOf(op.Type), Value |-> value]

\* The types of the first n tokens are as given by the sets in shape, and
\* the input is these tokens and ';'.
HasShape(shape) ==
    /\ Len(toks) = Len(shape) + 1
    /\ \A i \in 1..Len(shape) : toks[i].Type \in shape[i]
    /\ toks[Len(toks)].Type = "TokSemiColon"

\* C23: the unary operators - * & stack and bind tighter than every binary
\* operator:  u1 u2 x  is u1(u2(x)),  u a op b  is op(u(a), b)  and
\* a op u b  is op(a, u(b)).
C23_UnaryBindsTightest ==
    (New /\ parsepc = "done") =>
        /\ HasShape(<<UnaryTokens, UnaryTokens, LeafTypes>>) =>
               ParsedTo(<<ExprStmt(Un(toks[1], Un(toks[2], Leaf(toks[3]))))>>)
        /\ HasShape(<<UnaryTokens, LeafTypes, BinaryTokens, LeafTypes>>) =>
               ParsedTo(<<ExprStmt(Bin(toks[3], Un(toks[1], Leaf(toks[2])), Leaf(toks[4])))>>)
        /\ HasShape(<<LeafTypes, BinaryTokens, UnaryTokens, LeafTypes>>) =>
               ParsedTo(<<ExprStmt(Bin(toks[2], Leaf(toks[1]), Un(toks[3], Leaf(toks[4]))))>>)

\* C23 witness: Parse has returned the statement for  - x * x ;
C23_Witness ==
    /\ New /\ parsepc = "done"
    /\ HasShape(<<{"TokDash"}, LeafTypes, {"TokStar"}, LeafTypes>>)
    /\ parseResult.err = Nil

\* The Source of node n is the location of an input token of type typ.
LocatedAt(n, typ) ==
    /\ n.Source.Line \in 1..Len(toks)
    /\ toks[n.Source.Line].Type = typ
    /\ n.Source = toks[n.Source.Line].Source

\* Every token the tree of child records comes after the token of n.
Follows(child, n) == \A x \in Lines(child) : x > n.Source.Line

\* A statement and the statements inside it carry the location of their
\* introducing token, which comes before the tokens of their parts (in an
\* Assignment: between the tokens of the two sides).  The Empty statement
\* that stands for a missing else is passed over when lenient is TRUE.
RECURSIVE Located(_, _)
Located(n, lenient) ==
    CASE n.node = "Empty" -> LocatedAt(n, "TokSemiColon")
      [] n.node = "Assignment" ->
           /\ LocatedAt(n, "TokAssign")
           /\ \A x \in Lines(n.Left) : x < n.Source.Line
           /\ Follows(n.Right, n)
      [] n.node = "Declaration" -> LocatedAt(n, "TokVar") /\ Follows(n.Type, n)
      [] n.node = "IfStatement" ->
           /\ LocatedAt(n, "TokIf")
           /\ Follows(n.Condition, n) /\ Follows(n.Statement1, n)
           /\ Follows(n.Statement2, n)
           /\ Located(n.Statement1, lenient)
           /\ (lenient /\ n.Statement2 = EmptyStatement) \/ Located(n.Statement2, lenient)
      [] n.node = "WhileStatement" ->
           /\ LocatedAt(n, "TokWhile")
           /\ Follows(n.Condition, n) /\ Follows(n.Statement, n)
           /\ Located(n.Statement, lenient)
      [] n.node = "BlockStatement" ->
           /\ LocatedAt(n, "TokLeftCurly")
           /\ \A i \in DOMAIN n.Statements :
                  Follows(n.Statements[i], n) /\ Located(n.Statements[i], lenient)
      [] n.node = "ExpressionStatement" -> TRUE

\* C25: every statement node of a result carries the location of its
\* introducing token: Empty the ';', Assignment the '=', Declaration the
\* 'var', IfStatement the 'if', WhileStatement the 'while', BlockStatement
\* the '{'.
C25_StatementLocations ==
    (parsepc = "done" /\ parseResult.err = Nil) =>
        \A i \in DOMAIN parseResult.stmts.elems :
            Located(parseResult.stmts.elems[i], FALSE)

\* C25 for all statement nodes but the Empty statement of a missing else.
C25_LocationsButMissingElse ==
    (parsepc = "done" /\ parseResult.err = Nil) =>
        \A i \in DOMAIN parseResult.stmts.elems :
            Located(parseResult.stmts.elems[i], TRUE)

\* C26: the cursor of the parser stays within 0 .. len(tokens): it is
\* advanced only over a token that exists, and never moved back.
C26_CursorInRange ==
    parsepc # "idle" => 0 <= p.pos /\ p.pos <= Len(toks)

\* C26 under the parser of part_003 alone.
C26_CursorInRangeNew == New => C26_CursorInRange

\* No step of Parse moves the cursor back.
C26_CursorNeverBack == [][parsepc # "idle" => p'.pos >= p.pos]_vars

\* C27: statement() returns nil exactly when the error field is set: after
\* a nil statement (Parse leaves its loop) an error is recorded, after a
\* statement that was appended none is, and no appended statement holds a
\* Subscript without a base or an index.
C27_NodeIffNoError ==
    parsepc \in {"loop", "break"} =>
        /\ parsepc = "break" <=> p.err # Nil
        /\ \A i \in DOMAIN statements : SubscriptsComplete(statements[i])

\* C27 for the inputs in which no '[' follows a token that cannot end an
\* expression and no array size is out of range, under the parser of
\* part_003.
C27_NodeIffNoErrorWellFormed ==
    (New /\ \A i \in 1..Len(toks) :
               /\ toks[i].Type = "TokLeftSquare" =>
                      i > 1 /\ toks[i - 1].Type \in LeafTypes \cup {"TokRightSquare",
                                                                    "TokRightBracket"}
               /\ toks[i].Value # Huge.Value) => C27_NodeIffNoError

\* C28: Parse terminates.  Every iteration of its loop leaves the loop or
\* moves the cursor forward, within the tokens, and appends the statement
\* it got, so that the loop runs at most len(tokens) times; and every call
\* of statement() in the loop has a result, with the cursor not moved back
\* and within the tokens: the loops inside statement() end.
C28_Terminates ==
    [][/\ (New /\ parsepc = "loop" /\ parsepc' = "loop") =>
            /\ p'.pos > p.pos /\ p'.pos <= Len(toks)
            /\ Len(statements') = Len(statements) + 1
       /\ (New /\ parsepc = "loop" /\ ~empty(p)) =>
            statement(p).p.pos \in p.pos..Len(toks)]_vars

\* C28 witness: Parse has returned a block of one statement and a further
\* statement
C28_Witness ==
    /\ New /\ parsepc = "done" /\ parseResult.err = Nil
    /\ Len(statements) = 2
    /\ statements[1].node = "BlockStatement"
    /\ Len(statements[1].Statements) = 1

\* The locations of the input tokens.
TokenSources == {toks[i].Source : i \in 1..Len(toks)}

\* A statement and the statements inside it have the location of an input
\* token.
RECURSIVE HasTokenSource(_)
HasTokenSource(n) ==
    CASE n.node \in {"Empty", "Assignment", "Declaration"} -> n.Source \in TokenSources
      [] n.node = "IfStatement" ->
           /\ n.Source \in TokenSources
           /\ HasTokenSource(n.Statement1) /\ HasTokenSource(n.Statement2)
      [] n.node = "WhileStatement" ->
           n.Source \in TokenSources /\ HasTokenSource(n.Statement)
      [] n.node = "BlockStatement" ->
           /\ n.Source \in TokenSources
           /\ \A i \in DOMAIN n.Statements : HasTokenSource(n.Statements[i])
      [] n.node = "ExpressionStatement" -> TRUE

\* C29: the tokens of the input have lines from 1 on, and every statement
\* node of a result, the Empty statement of a missing else included, has the
\* location of one of them, so its line is 1 at least.
C29_StatementsHaveTokenSource ==
    (parsepc = "done" /\ parseResult.err = Nil) =>
        /\ \A src \in TokenSources : src.Line >= 1
        /\ \A i \in DOMAIN parseResult.stmts.elems :
               HasTokenSource(parseResult.stmts.elems[i])

====
